---- MODULE Spec2Model ----
(***************************************************************************)
(* Model of the schema conversion engine of promptly-package:             *)
(*   - the runtime backend  (schema/builder.ts: buildFieldSchema,          *)
(*     buildZodSchema), which builds a zod validator by chained calls;     *)
(*   - the source backend   (schema/codegen.ts: schemaFieldsToZodSource),  *)
(*     which emits the text of such a chain.                               *)
(*                                                                         *)
(* Text is a sequence of tokens.  A string supplied by the caller (a rule  *)
(* message, a rule value, a description, an enum value) is a sequence of   *)
(* one-character tokens; the fixed parts of the code's template literals   *)
(* are tokens of their own.  A validator is represented by the calls that  *)
(* built it: its constructor and the ordered chain of method calls, with   *)
(* the class (kind) the last call returned.                                *)
(*                                                                         *)
(* Four kinds of run of the engine share the variables: field-level runs   *)
(* (Spec), escape runs (SpecEscape), object-level runs (SpecObject) and    *)
(* runs on fields of the parameterised types (SpecTypes).  Three more      *)
(* model the package around the engine: the prompt message and its         *)
(* interpolation (SpecInterpolate), the client with its fetches answered   *)
(* in any order (SpecClient), and the type generator of the command line   *)
(* tool (SpecGenerate).                                                    *)
(***************************************************************************)
EXTENDS Integers, Sequences, FiniteSets, TLC

VARIABLES
    field,      \* the SchemaField handed to both backends (field-level runs)
    schema,     \* result of buildFieldSchema(field)
    source,     \* result of buildFieldSource(field)
    input,      \* the value handed to schema.parse
    result,     \* result of schema.parse(input)
    str,        \* the string handed to escapeString (escape runs)
    escaped,    \* result of escapeString(str)
    fields,     \* the SchemaField list handed to the object-level operations
    objSource,  \* result of schemaFieldsToZodSource(fields)
    objSchema,  \* result of buildZodSchema(fields)
    ran,        \* the operations that have returned; a result is meaningful once its operation ran
    invoked,    \* the client method invoked and its arguments (client runs)
    requests,   \* the fetch requests issued so far, in the order of issue
    inflight,   \* the indices of the requests not yet answered
    answered,   \* the answered requests with their responses, in the order of the answers
    slots,      \* the promise of each entry's getPrompt / of the one fetchPrompt
    outcome,    \* the promise the client method returned
    template,   \* the template handed to createPromptMessage (interpolation runs)
    variables,  \* the variables handed to the prompt message, in Object.entries order
    interpolated, \* result of userMessage(variables)
    raw,        \* result of userMessage.toString()
    prompts,    \* the prompts handed to generateTypeDeclaration (generator runs)
    groups,     \* result of groupAndSortVersions for each prompt
    declaration \* result of generateTypeDeclaration(prompts), as lines

engineVars == <<field, schema, source, input, result, str, escaped, fields, objSource, objSchema>>
clientVars == <<invoked, requests, inflight, answered, slots, outcome>>
textVars == <<template, variables, interpolated, raw>>
cliVars == <<prompts, groups, declaration>>

vars == <<field, schema, source, input, result, str, escaped, fields, objSource, objSchema, ran,
          invoked, requests, inflight, answered, slots, outcome, template, variables, interpolated, raw,
          prompts, groups, declaration>>

\* Optional values (a key of params that may be missing): <<>> or <<x>>.
None == <<>>
Some(x) == <<x>>

----------------------------------------------------------------------------
(* Bounds of the model. *)

\* longest validations list of a field
MaxRules == 2
\* longest string handed to escapeString
MaxStrLen == 4
\* longest field list handed to the object-level operations
MaxFields == 2

----------------------------------------------------------------------------
(* Sequences and characters. *)

RECURSIVE Concat(_)
\* the concatenation of a sequence of sequences
Concat(ss) == IF ss = <<>> THEN <<>> ELSE Head(ss) \o Concat(Tail(ss))

RECURSIVE Join(_, _)
\* Array.prototype.join: the parts separated by sep
Join(ss, sep) ==
    IF ss = <<>> THEN <<>>
    ELSE IF Len(ss) = 1 THEN ss[1]
    ELSE ss[1] \o sep \o Join(Tail(ss), sep)

\* all sequences over S of length at most n
SeqUpTo(S, n) == UNION {[1..k -> S] : k \in 0..n}

Digits == <<"0", "1", "2", "3", "4", "5", "6", "7", "8", "9">>

IsDigit(c) == \E d \in 1..Len(Digits) : Digits[d] = c

DigitVal(c) == (CHOOSE d \in 1..Len(Digits) : Digits[d] = c) - 1

IsDigits(s) == Len(s) > 0 /\ \A i \in 1..Len(s) : IsDigit(s[i])

RECURSIVE DecVal(_)
\* the value of a non-empty decimal digit string
DecVal(s) ==
    IF Len(s) = 1 THEN DigitVal(s[1])
    ELSE DecVal(SubSeq(s, 1, Len(s) - 1)) * Len(Digits) + DigitVal(s[Len(s)])

RECURSIVE DecText(_)
\* the decimal digits of a natural number
DecText(n) ==
    IF n < Len(Digits) THEN <<Digits[n + 1]>>
    ELSE DecText(n \div Len(Digits)) \o <<Digits[(n % Len(Digits)) + 1]>>

IsSpace(c) == c = " " \/ c = "\n"

RECURSIVE TrimStart(_)
TrimStart(s) == IF s # <<>> /\ IsSpace(Head(s)) THEN TrimStart(Tail(s)) ELSE s

RECURSIVE TrimEnd(_)
TrimEnd(s) ==
    IF s # <<>> /\ IsSpace(s[Len(s)]) THEN TrimEnd(SubSeq(s, 1, Len(s) - 1)) ELSE s

\* String.prototype.trim
Trim(s) == TrimEnd(TrimStart(s))

----------------------------------------------------------------------------
(* JavaScript values that appear as arguments of zod calls. *)

NumV(n) == [t |-> "number", n |-> n, s |-> <<>>]
NaNV == [t |-> "number", n |-> 0, s |-> <<"NaN">>]
StrV(s) == [t |-> "string", n |-> 0, s |-> s]
BoolV(b) == [t |-> "boolean", n |-> IF b THEN 1 ELSE 0, s |-> <<>>]
BigV(n) == [t |-> "bigint", n |-> n, s |-> <<>>]
RegV(p) == [t |-> "regexp", n |-> 0, s |-> p]
UndefV == [t |-> "undefined", n |-> 0, s |-> <<>>]
NullV == [t |-> "null", n |-> 0, s |-> <<>>]
\* a validator used as an argument (an element, key, value or member type)
SchemaV(name) == [t |-> "schema", n |-> 0, s |-> name]
\* an options object, given by the text of its entries
ObjV(entries) == [t |-> "object", n |-> 0, s |-> entries]
\* the evaluation raised an exception
ThrowV == [t |-> "throw", n |-> 0, s |-> <<>>]

\* Number(value) for strings of digits, '-', letters and blanks: blank -> 0,
\* an optionally signed decimal integer -> its value, anything else -> NaN.
Number(value) ==
    LET v == Trim(value) IN
    IF v = <<>> THEN NumV(0)
    ELSE IF IsDigits(v) THEN NumV(DecVal(v))
    ELSE IF Head(v) = "-" /\ IsDigits(Tail(v)) THEN NumV(0 - DecVal(Tail(v)))
    ELSE NaNV

\* String(n) of a number value: its decimal text, or NaN.
NumText(v) ==
    IF v.s # <<>> THEN <<"NaN">>
    ELSE IF v.n < 0 THEN <<"-">> \o DecText(0 - v.n)
    ELSE DecText(v.n)

\* BigInt(value): blank -> 0n, an optionally signed decimal integer -> its
\* value, anything else raises SyntaxError.
BigInt(value) ==
    LET v == Trim(value) IN
    IF v = <<>> THEN BigV(0)
    ELSE IF IsDigits(v) THEN BigV(DecVal(v))
    ELSE IF Head(v) = "-" /\ IsDigits(Tail(v)) THEN BigV(0 - DecVal(Tail(v)))
    ELSE ThrowV

----------------------------------------------------------------------------
(* codegen.ts: escapeString *)

RECURSIVE ReplaceAll(_, _, _)
\* String.prototype.replace with a global one-character pattern
ReplaceAll(s, c, by) ==
    IF s = <<>> THEN <<>>
    ELSE (IF Head(s) = c THEN by ELSE <<Head(s)>>) \o ReplaceAll(Tail(s), c, by)

\* a plausible slip: the quote is escaped before the backslash
escapeString_QuoteFirst(s) ==
    ReplaceAll(ReplaceAll(ReplaceAll(s, "'", <<"\\", "'">>), "\\", <<"\\", "\\">>),
               "\n", <<"\\", "n">>)

escapeString(s) ==
    ReplaceAll(ReplaceAll(ReplaceAll(s, "\\", <<"\\", "\\">>), "'", <<"\\", "'">>),
               "\n", <<"\\", "n">>)

----------------------------------------------------------------------------
(* The schema document: SchemaField, ValidationRule, SchemaFieldParams. *)

\* A rule: its tag, its string value and its message.
Rule(type, value, message) == [type |-> type, value |-> value, message |-> message]

\* params with every key missing
NoParams ==
    [coerce |-> FALSE, description |-> None, enumValues |-> None,
     unionTypes |-> None, elementType |-> None, keyType |-> None,
     valueType |-> None, isTuple |-> FALSE, tupleTypes |-> None,
     isStrict |-> FALSE, isPassthrough |-> FALSE,
     isDiscriminatedUnion |-> FALSE, discriminatedUnion |-> None,
     ipVersion |-> None, datetime |-> None]

\* params.discriminatedUnion: the discriminator key and the cases, in the
\* order Object.values lists them
DiscriminatedUnion(discriminator, cases) ==
    [discriminator |-> discriminator, cases |-> cases]

\* one case: the value of the discriminator and the fields of the case
Case(value, caseFields) == [value |-> value, fields |-> caseFields]

Field(name, type, validations, params) ==
    [name |-> name, type |-> type, validations |-> validations, params |-> params]

\* a string is truthy when it is present and not empty
Truthy(opt) == opt # None /\ opt[1] # <<>>

----------------------------------------------------------------------------
(* codegen.ts: the source backend. *)

\* 'text' : a single-quoted literal of an escaped string
Quoted(s) == <<"'">> \o escapeString(s) \o <<"'">>

\* name(arg, arg, ...)
ArgList(args) == <<"(">> \o Join(args, <<",", " ">>) \o <<")">>

\* .name(arg, ...)
Call(name, args) == <<".", name>> \o ArgList(args)

\* z.name(arg, ...)
Ctor(name, args) == <<"z", ".", name>> \o ArgList(args)

SimpleTags ==
    {"string", "number", "boolean", "date", "bigint", "null", "undefined",
     "void", "any", "unknown", "never", "nan", "symbol"}

CoerceTags == {"string", "number", "boolean", "date", "bigint"}

\* the text 'z.<tag>()' of each parameterless type
SIMPLE_TYPE_SOURCE == [t \in SimpleTags |-> Ctor(t, <<>>)]

\* the text 'z.coerce.<tag>()' of each coercible type
COERCE_TYPE_SOURCE == [t \in CoerceTags |-> <<"z", ".", "coerce", ".", t>> \o ArgList(<<>>)]

resolveTypeSource(typeStr) ==
    IF typeStr \in DOMAIN SIMPLE_TYPE_SOURCE
    THEN SIMPLE_TYPE_SOURCE[typeStr]
    ELSE Ctor("unknown", <<>>)

\* a plausible slip: the boolean default is emitted as a quoted string
coerceDefaultSource_Quoted(value, fieldType) ==
    IF fieldType = "number" THEN NumText(Number(value))
    ELSE IF fieldType = "bigint" THEN <<"BigInt">> \o ArgList(<<Quoted(value)>>)
    ELSE Quoted(value)

coerceDefaultSource(value, fieldType) ==
    IF fieldType = "number" THEN NumText(Number(value))
    ELSE IF fieldType = "boolean"
         THEN (IF value = <<"t", "r", "u", "e">> THEN <<"true">> ELSE <<"false">>)
    ELSE IF fieldType = "bigint" THEN <<"BigInt">> \o ArgList(<<Quoted(value)>>)
    ELSE Quoted(value)

\* the tags VALIDATION_SOURCE_MAP has an entry for
SourceRuleTags ==
    {"min", "max", "length", "email", "url", "uuid", "cuid", "cuid2", "ulid",
     "regex", "startsWith", "endsWith", "datetime", "ip", "trim",
     "toLowerCase", "toUpperCase", "int", "positive", "negative",
     "multipleOf", "finite", "safe", "nonempty", "optional", "nullable",
     "nullish", "default", "catch", "readonly"}

\* `offset: true, precision: 3` for the entries of a datetime options object
DatetimeParts(opts) ==
    (IF opts.offset # None
     THEN << <<"offset", ":", " ", IF opts.offset[1] THEN "true" ELSE "false">> >>
     ELSE <<>>)
    \o
    (IF opts.precision # None
     THEN << <<"precision", ":", " ">> \o DecText(opts.precision[1]) >>
     ELSE <<>>)

\* the fragment VALIDATION_SOURCE_MAP.get(r.type) generates for rule r of field f
VALIDATION_SOURCE_MAP(r, f) ==
    CASE r.type \in {"min", "max", "length", "multipleOf"} ->
            Call(r.type, <<NumText(Number(r.value)), Quoted(r.message)>>)
      [] r.type \in {"email", "url", "uuid", "cuid", "cuid2", "ulid",
                     "int", "positive", "negative", "finite", "safe"} ->
            Call(r.type, <<Quoted(r.message)>>)
      [] r.type = "regex" ->
            Call("regex", << <<"new", " ", "RegExp">> \o ArgList(<<Quoted(r.value)>>),
                             Quoted(r.message) >>)
      [] r.type \in {"startsWith", "endsWith"} ->
            Call(r.type, <<Quoted(r.value), Quoted(r.message)>>)
      [] r.type = "datetime" ->
            IF f.params.datetime = None
            THEN Call("datetime", <<>>)
            ELSE Call("datetime",
                      << <<"{", " ">> \o Join(DatetimeParts(f.params.datetime[1]), <<",", " ">>)
                         \o <<" ", "}">> >>)
      [] r.type = "ip" ->
            IF f.params.ipVersion = Some(<<"v", "6">>)
            THEN Call("ipv6", <<>>)
            ELSE Call("ipv4", <<>>)
      [] r.type \in {"trim", "toLowerCase", "toUpperCase", "nonempty", "optional",
                     "nullable", "nullish", "readonly"} ->
            Call(r.type, <<>>)
      [] r.type \in {"default", "catch"} ->
            Call(r.type, <<coerceDefaultSource(r.value, f.type)>>)

\* the constructor text of the field, with the openness call of an object
buildBaseTypeSource(f) ==
    LET p == f.params
        elem(opt) == IF opt # None THEN resolveTypeSource(opt[1]) ELSE Ctor("unknown", <<>>)
        key(opt) == IF opt # None THEN resolveTypeSource(opt[1]) ELSE Ctor("string", <<>>)
        list(items) == <<"[">> \o Join(items, <<",", " ">>) \o <<"]">>
        members == IF p.unionTypes = None THEN <<>>
                   ELSE [i \in 1..Len(p.unionTypes[1]) |-> resolveTypeSource(p.unionTypes[1][i])]
    IN
    IF p.coerce /\ f.type \in DOMAIN COERCE_TYPE_SOURCE
    THEN <<COERCE_TYPE_SOURCE[f.type]>>
    ELSE IF f.type \in DOMAIN SIMPLE_TYPE_SOURCE
    THEN <<SIMPLE_TYPE_SOURCE[f.type]>>
    ELSE IF f.type = "enum" /\ p.enumValues # None
    THEN << Ctor("enum", <<list([i \in 1..Len(p.enumValues[1]) |-> Quoted(p.enumValues[1][i])])>>) >>
    ELSE IF f.type = "literal" /\ p.enumValues # None /\ p.enumValues[1] # <<>>
            /\ p.enumValues[1][1] # <<>>
    THEN << Ctor("literal", <<Quoted(p.enumValues[1][1])>>) >>
    ELSE IF f.type = "array"
    THEN IF p.isTuple /\ p.tupleTypes # None
         THEN << Ctor("tuple", <<list([i \in 1..Len(p.tupleTypes[1]) |->
                                        resolveTypeSource(p.tupleTypes[1][i])])>>) >>
         ELSE << Ctor("array", <<elem(p.elementType)>>) >>
    ELSE IF f.type = "object"
    THEN << Ctor("object", << <<"{", "}">> >>) >>
         \o (IF p.isStrict THEN <<Call("strict", <<>>)>>
             ELSE IF p.isPassthrough THEN <<Call("passthrough", <<>>)>>
             ELSE <<>>)
    ELSE IF f.type = "record"
    THEN << Ctor("record", <<key(p.keyType), elem(p.valueType)>>) >>
    ELSE IF f.type = "map"
    THEN << Ctor("map", <<key(p.keyType), elem(p.valueType)>>) >>
    ELSE IF f.type = "set"
    THEN << Ctor("set", <<elem(p.elementType)>>) >>
    ELSE IF f.type = "union"
    THEN << Ctor("union", <<list(members)>>) >>
    ELSE IF f.type = "intersection"
    THEN << Ctor("intersection",
                 << IF Len(members) >= 1 THEN members[1] ELSE Ctor("unknown", <<>>),
                    IF Len(members) >= 2 THEN members[2] ELSE Ctor("unknown", <<>>) >>) >>
    ELSE << Ctor("unknown", <<>>) >>

RECURSIVE SourceFold(_, _, _)
\* the loop of buildFieldSource over rules[i..]: one fragment per rule the map knows
SourceFold(acc, f, i) ==
    IF i > Len(f.validations) THEN acc
    ELSE LET rule == f.validations[i] IN
         IF rule.type \in SourceRuleTags
         THEN SourceFold(Append(acc, VALIDATION_SOURCE_MAP(rule, f)), f, i + 1)
         ELSE SourceFold(acc, f, i + 1)

\* a plausible slip: the description is chained before the rules
buildFieldSource_DescribeFirst(f) ==
    LET base == buildBaseTypeSource(f) IN
    IF Truthy(f.params.description)
    THEN SourceFold(Append(base, Call("describe", <<Quoted(f.params.description[1])>>)), f, 1)
    ELSE SourceFold(base, f, 1)

\* the field expression, as the sequence of the pieces appended to `source`
buildFieldSource(f) ==
    LET chained == SourceFold(buildBaseTypeSource(f), f, 1) IN
    IF Truthy(f.params.description)
    THEN Append(chained, Call("describe", <<Quoted(f.params.description[1])>>))
    ELSE chained

\* the text of the field expression
FieldText(f) == Concat(buildFieldSource(f))

\* a plausible slip: the entries are joined by commas, the last one without
schemaFieldsToZodSource_NoTrailingComma(fs) ==
    LET entries == [i \in 1..Len(fs) |->
                      <<" ", " ">> \o fs[i].name \o <<":", " ">> \o FieldText(fs[i])]
    IN <<"z", ".", "object", "(", "{", "\n">> \o Join(entries, <<",", "\n">>) \o <<"\n", "}", ")">>

schemaFieldsToZodSource(fs) ==
    LET entries == [i \in 1..Len(fs) |->
                      <<" ", " ">> \o fs[i].name \o <<":", " ">> \o FieldText(fs[i]) \o <<",">>]
    IN <<"z", ".", "object", "(", "{", "\n">> \o Join(entries, <<"\n">>) \o <<"\n", "}", ")">>

----------------------------------------------------------------------------
(* builder.ts: the runtime backend.  A zod validator is the record of how *)
(* it was built: kind is its class (what `instanceof` sees), ctor the     *)
(* z.<fn>(...) call that created it, calls the methods chained on it, and *)
(* description what its `description` accessor returns.                    *)

\* z.<fn>(args), an instance of class kind
Z(fn, kind, args) ==
    [kind |-> kind, ctor |-> [fn |-> fn, coerce |-> FALSE, args |-> args],
     calls |-> <<>>, description |-> None]

\* z.coerce.<fn>(), an instance of class kind
ZCoerce(fn, kind) ==
    [kind |-> kind, ctor |-> [fn |-> fn, coerce |-> TRUE, args |-> <<>>],
     calls |-> <<>>, description |-> None]

\* the conversion raised an exception: there is no validator
Threw == [kind |-> "threw", ctor |-> [fn |-> "", coerce |-> FALSE, args |-> <<>>],
          calls |-> <<>>, description |-> None]

\* s.<m>(args), an instance of class kind
AddCall(s, m, args, kind) ==
    [s EXCEPT !.calls = Append(@, [m |-> m, args |-> args]), !.kind = kind]

\* the class of the validator each parameterless constructor returns
ClassOf ==
    [t \in SimpleTags |->
        CASE t = "string" -> "ZodString"
          [] t = "number" -> "ZodNumber"
          [] t = "boolean" -> "ZodBoolean"
          [] t = "date" -> "ZodDate"
          [] t = "bigint" -> "ZodBigInt"
          [] t = "null" -> "ZodNull"
          [] t = "undefined" -> "ZodUndefined"
          [] t = "void" -> "ZodVoid"
          [] t = "any" -> "ZodAny"
          [] t = "unknown" -> "ZodUnknown"
          [] t = "never" -> "ZodNever"
          [] t = "nan" -> "ZodNaN"
          [] t = "symbol" -> "ZodSymbol"]

\* the tags TYPE_BUILDERS has an entry for
BuilderTags ==
    SimpleTags \cup {"enum", "literal", "array", "object", "record", "map", "set",
                     "union", "intersection"}

\* the text that denotes the validator a constructor call built
CtorText(c) ==
    LET lit(v) == IF v.t = "schema" THEN v.s ELSE Quoted(v.s)
        texts == [i \in 1..Len(c.args) |-> lit(c.args[i])]
    IN IF c.fn \in {"enum", "tuple", "union"}
       THEN Ctor(c.fn, << <<"[">> \o Join(texts, <<",", " ">>) \o <<"]">> >>)
       ELSE IF c.fn = "object" THEN Ctor(c.fn, << <<"{", "}">> >>)
       ELSE IF c.fn = "discriminatedUnion"
       THEN Ctor(c.fn, << Head(texts), <<"[">> \o Join(Tail(texts), <<",", " ">>) \o <<"]">> >>)
       ELSE Ctor(c.fn, texts)

RECURSIVE PutShape(_, _, _)
\* shape[name] = s on an object that keeps its keys in insertion order
PutShape(shape, name, s) ==
    IF shape = <<>> THEN << [name |-> name, schema |-> s] >>
    ELSE IF Head(shape).name = name THEN << [name |-> name, schema |-> s] >> \o Tail(shape)
    ELSE <<Head(shape)>> \o PutShape(Tail(shape), name, s)

\* the text that denotes a value passed to a zod call
ValueText(v) ==
    CASE v.t = "string" -> Quoted(v.s)
      [] v.t = "number" -> NumText(v)
      [] v.t = "boolean" -> IF v.n = 1 THEN <<"true">> ELSE <<"false">>
      [] v.t = "bigint" -> <<"BigInt">> \o ArgList(<<Quoted(NumText(NumV(v.n)))>>)
      [] v.t = "regexp" -> <<"new", " ", "RegExp">> \o ArgList(<<Quoted(v.s)>>)
      [] v.t = "object" -> IF v.s = <<>> THEN <<"{", "}">> ELSE <<"{", " ">> \o v.s \o <<" ", "}">>
      [] OTHER -> v.s

\* the text that denotes a validator: its constructor, then its calls
SchemaText(s) ==
    (IF s.ctor.coerce THEN COERCE_TYPE_SOURCE[s.ctor.fn] ELSE CtorText(s.ctor))
    \o Concat([i \in 1..Len(s.calls) |->
                  Call(s.calls[i].m,
                       [k \in 1..Len(s.calls[i].args) |-> ValueText(s.calls[i].args[k])])])

\* the text of z.object(shape) for a shape of named validators
ObjectText(shape) ==
    Ctor("object",
         << <<"{", " ">>
            \o Join([i \in 1..Len(shape) |-> shape[i].name \o <<":", " ">> \o SchemaText(shape[i].schema)],
                    <<",", " ">>)
            \o <<" ", "}">> >>)

buildCoercible(params, coerced, standard) ==
    IF params.coerce THEN coerced ELSE standard

\* a plausible slip: the `?? []` is missing, and z.enum(undefined) raises
TYPE_BUILDERS_enum_NoFallback(f) ==
    IF f.params.enumValues = None THEN Threw
    ELSE Z("enum", "ZodEnum",
           [i \in 1..Len(f.params.enumValues[1]) |-> StrV(f.params.enumValues[1][i])])

\* the 'enum' entry of TYPE_BUILDERS
TYPE_BUILDERS_enum(f) ==
    Z("enum", "ZodEnum",
      IF f.params.enumValues = None THEN <<>>
      ELSE [i \in 1..Len(f.params.enumValues[1]) |-> StrV(f.params.enumValues[1][i])])

RECURSIVE TYPE_BUILDERS(_)
RECURSIVE buildFieldSchema(_)
\* a nested type tag resolved to a validator, as an argument value
resolveTypeString(typeStr) ==
    IF typeStr \in BuilderTags
    THEN SchemaV(CtorText(TYPE_BUILDERS(Field(<<>>, typeStr, <<>>, NoParams)).ctor))
    ELSE SchemaV(Ctor("string", <<>>))

\* the validator TYPE_BUILDERS.get(f.type) builds, for f.type in BuilderTags
TYPE_BUILDERS(f) ==
    LET p == f.params
        elem(opt) == IF opt # None THEN resolveTypeString(opt[1])
                     ELSE SchemaV(Ctor("unknown", <<>>))
        key(opt) == IF opt # None THEN resolveTypeString(opt[1])
                    ELSE SchemaV(Ctor("string", <<>>))
        members == IF p.unionTypes = None THEN <<>>
                   ELSE [i \in 1..Len(p.unionTypes[1]) |-> resolveTypeString(p.unionTypes[1][i])]
        \* the shape of one case object: the literal on the discriminator, then
        \* the case fields, a later key of the same name replacing the value
        caseShape(du, c) ==
            LET put[i \in 0..Len(c.fields)] ==
                    IF i = 0
                    THEN << [name |-> du.discriminator,
                             schema |-> Z("literal", "ZodLiteral", <<StrV(c.value)>>)] >>
                    ELSE PutShape(put[i - 1], c.fields[i].name, buildFieldSchema(c.fields[i]))
            IN put[Len(c.fields)]
        caseThrows(c) == \E i \in 1..Len(c.fields) : buildFieldSchema(c.fields[i]) = Threw
    IN
    CASE f.type \in CoerceTags ->
            buildCoercible(p, ZCoerce(f.type, ClassOf[f.type]), Z(f.type, ClassOf[f.type], <<>>))
      [] f.type \in SimpleTags \ CoerceTags ->
            Z(f.type, ClassOf[f.type], <<>>)
      [] f.type = "enum" -> TYPE_BUILDERS_enum(f)
      [] f.type = "literal" ->
            Z("literal", "ZodLiteral",
              IF p.enumValues # None /\ p.enumValues[1] # <<>>
              THEN <<StrV(p.enumValues[1][1])>>
              ELSE <<StrV(<<>>)>>)
      [] f.type = "array" ->
            IF p.isTuple /\ p.tupleTypes # None
            THEN Z("tuple", "ZodTuple",
                   [i \in 1..Len(p.tupleTypes[1]) |-> resolveTypeString(p.tupleTypes[1][i])])
            ELSE Z("array", "ZodArray", <<elem(p.elementType)>>)
      [] f.type = "object" ->
            LET obj == Z("object", "ZodObject", <<>>) IN
            IF p.isStrict THEN AddCall(obj, "strict", <<>>, "ZodObject")
            ELSE IF p.isPassthrough THEN AddCall(obj, "passthrough", <<>>, "ZodObject")
            ELSE obj
      [] f.type = "record" ->
            Z("record", "ZodRecord", <<key(p.keyType), elem(p.valueType)>>)
      [] f.type = "map" ->
            Z("map", "ZodMap", <<key(p.keyType), elem(p.valueType)>>)
      [] f.type = "set" ->
            Z("set", "ZodSet", <<elem(p.elementType)>>)
      [] f.type = "union" ->
            IF p.isDiscriminatedUnion /\ p.discriminatedUnion # None
            THEN LET du == p.discriminatedUnion[1] IN
                 IF \E i \in 1..Len(du.cases) : caseThrows(du.cases[i]) THEN Threw
                 ELSE Z("discriminatedUnion", "ZodDiscriminatedUnion",
                        <<StrV(du.discriminator)>>
                        \o [i \in 1..Len(du.cases) |->
                               SchemaV(ObjectText(caseShape(du, du.cases[i])))])
            ELSE Z("union", "ZodUnion", members)
      [] f.type = "intersection" ->
            Z("intersection", "ZodIntersection",
              << IF Len(members) >= 1 THEN members[1] ELSE SchemaV(Ctor("unknown", <<>>)),
                 IF Len(members) >= 2 THEN members[2] ELSE SchemaV(Ctor("unknown", <<>>)) >>)

coerceDefaultValue(value, fieldType) ==
    IF fieldType = "number" THEN Number(value)
    ELSE IF fieldType = "boolean" THEN BoolV(value = <<"t", "r", "u", "e">>)
    ELSE IF fieldType = "bigint" THEN BigInt(value)
    ELSE StrV(value)

applySizeValidation(s, type, value, message) ==
    LET num == Number(value) IN
    IF s.kind = "ZodString"
    THEN (IF type \in {"min", "max", "length"}
          THEN AddCall(s, type, <<num, StrV(message)>>, "ZodString") ELSE s)
    ELSE IF s.kind = "ZodNumber"
    THEN (IF type \in {"min", "max"}
          THEN AddCall(s, type, <<num, StrV(message)>>, "ZodNumber") ELSE s)
    ELSE IF s.kind = "ZodArray"
    THEN (IF type \in {"min", "max", "length"}
          THEN AddCall(s, type, <<num>>, "ZodArray") ELSE s)
    ELSE s

\* new RegExp(pattern), for patterns of letters, backslashes and parentheses:
\* SyntaxError on a trailing lone backslash or unbalanced parentheses.
RECURSIVE PatternOk(_, _)
PatternOk(p, depth) ==
    IF p = <<>> THEN depth = 0
    ELSE IF Head(p) = "\\" THEN Len(p) >= 2 /\ PatternOk(Tail(Tail(p)), depth)
    ELSE IF Head(p) = "(" THEN PatternOk(Tail(p), depth + 1)
    ELSE IF Head(p) = ")" THEN depth > 0 /\ PatternOk(Tail(p), depth - 1)
    ELSE PatternOk(Tail(p), depth)

RegExp(pattern) == IF PatternOk(pattern, 0) THEN RegV(pattern) ELSE ThrowV

\* the entries of the options object handed to s.datetime
DatetimeOpts(opts) == ObjV(Join(DatetimeParts(opts), <<",", " ">>))

\* the tags VALIDATION_APPLICATORS has an entry for
ApplicatorTags == SourceRuleTags

\* what VALIDATION_APPLICATORS.get(r.type) returns for validator s, rule r, field f
VALIDATION_APPLICATORS(s, r, f) ==
    CASE r.type \in {"min", "max", "length"} ->
            applySizeValidation(s, r.type, r.value, r.message)
      [] r.type \in {"email", "url", "uuid", "cuid", "cuid2", "ulid"} ->
            IF s.kind = "ZodString" THEN AddCall(s, r.type, <<StrV(r.message)>>, "ZodString") ELSE s
      [] r.type = "regex" ->
            IF s.kind = "ZodString"
            THEN (IF RegExp(r.value) = ThrowV THEN Threw
                  ELSE AddCall(s, "regex", <<RegExp(r.value), StrV(r.message)>>, "ZodString"))
            ELSE s
      [] r.type \in {"startsWith", "endsWith"} ->
            IF s.kind = "ZodString"
            THEN AddCall(s, r.type, <<StrV(r.value), StrV(r.message)>>, "ZodString") ELSE s
      [] r.type = "datetime" ->
            IF s.kind # "ZodString" THEN s
            ELSE IF f.params.datetime = None THEN AddCall(s, "datetime", <<>>, "ZodString")
            ELSE AddCall(s, "datetime", <<DatetimeOpts(f.params.datetime[1])>>, "ZodString")
      [] r.type = "ip" ->
            IF s.kind # "ZodString" THEN s
            ELSE AddCall(s, "ip",
                         << ObjV(IF f.params.ipVersion = None THEN <<>>
                                 ELSE <<"version", ":", " ">> \o Quoted(f.params.ipVersion[1])) >>,
                         "ZodString")
      [] r.type \in {"trim", "toLowerCase", "toUpperCase"} ->
            IF s.kind = "ZodString" THEN AddCall(s, r.type, <<>>, "ZodString") ELSE s
      [] r.type \in {"int", "positive", "negative", "finite", "safe"} ->
            IF s.kind = "ZodNumber" THEN AddCall(s, r.type, <<StrV(r.message)>>, "ZodNumber") ELSE s
      [] r.type = "multipleOf" ->
            IF s.kind = "ZodNumber"
            THEN AddCall(s, "multipleOf", <<Number(r.value), StrV(r.message)>>, "ZodNumber") ELSE s
      [] r.type = "nonempty" ->
            IF s.kind = "ZodString" THEN AddCall(s, "min", <<NumV(1)>>, "ZodString")
            ELSE IF s.kind = "ZodArray" THEN AddCall(s, "nonempty", <<>>, "ZodArray")
            ELSE s
      [] r.type = "optional" -> AddCall(s, "optional", <<>>, "ZodOptional")
      [] r.type = "nullable" -> AddCall(s, "nullable", <<>>, "ZodNullable")
      [] r.type = "nullish" -> AddCall(s, "nullish", <<>>, "ZodOptional")
      [] r.type = "default" ->
            IF coerceDefaultValue(r.value, f.type) = ThrowV THEN Threw
            ELSE AddCall(s, "default", <<coerceDefaultValue(r.value, f.type)>>, "ZodDefault")
      [] r.type = "catch" ->
            IF coerceDefaultValue(r.value, f.type) = ThrowV THEN Threw
            ELSE AddCall(s, "catch", <<coerceDefaultValue(r.value, f.type)>>, "ZodCatch")
      [] r.type = "readonly" -> AddCall(s, "readonly", <<>>, "ZodReadonly")

RECURSIVE SchemaFold_Reversed(_, _, _)
\* a plausible slip: the rules are applied last to first
SchemaFold_Reversed(s, f, i) ==
    IF i > Len(f.validations) \/ s = Threw THEN s
    ELSE LET rule == f.validations[Len(f.validations) + 1 - i] IN
         IF rule.type \in ApplicatorTags
         THEN SchemaFold_Reversed(VALIDATION_APPLICATORS(s, rule, f), f, i + 1)
         ELSE SchemaFold_Reversed(s, f, i + 1)

RECURSIVE SchemaFold_StopAtUnknown(_, _, _)
\* a plausible slip: a tag without applicator ends the loop (break for continue)
SchemaFold_StopAtUnknown(s, f, i) ==
    IF i > Len(f.validations) \/ s = Threw THEN s
    ELSE LET rule == f.validations[i] IN
         IF rule.type \in ApplicatorTags
         THEN SchemaFold_StopAtUnknown(VALIDATION_APPLICATORS(s, rule, f), f, i + 1)
         ELSE s

RECURSIVE SchemaFold(_, _, _)
\* the loop of buildFieldSchema over rules[i..]; an exception ends it
SchemaFold(s, f, i) ==
    IF i > Len(f.validations) \/ s = Threw THEN s
    ELSE LET rule == f.validations[i] IN
         IF rule.type \in ApplicatorTags
         THEN SchemaFold(VALIDATION_APPLICATORS(s, rule, f), f, i + 1)
         ELSE SchemaFold(s, f, i + 1)

\* a plausible slip: an unknown type falls back to z.string(), as a nested
\* type reference does
buildFieldSchema_StringFallback(f) ==
    IF f.type \notin BuilderTags THEN Z("string", "ZodString", <<>>)
    ELSE LET chained == SchemaFold(TYPE_BUILDERS(f), f, 1) IN
         IF chained = Threw THEN Threw
         ELSE IF Truthy(f.params.description)
         THEN [AddCall(chained, "describe", <<StrV(f.params.description[1])>>, chained.kind)
                 EXCEPT !.description = Some(f.params.description[1])]
         ELSE chained

buildFieldSchema(f) ==
    IF f.type \notin BuilderTags THEN Z("unknown", "ZodUnknown", <<>>)
    ELSE LET chained == SchemaFold(TYPE_BUILDERS(f), f, 1) IN
         IF chained = Threw THEN Threw
         ELSE IF Truthy(f.params.description)
         THEN [AddCall(chained, "describe", <<StrV(f.params.description[1])>>, chained.kind)
                 EXCEPT !.description = Some(f.params.description[1])]
         ELSE chained

----------------------------------------------------------------------------
(* The host's reading of generated text: what validator a field expression *)
(* denotes once the host language evaluates it.                            *)

RECURSIVE ScanString(_, _)
\* the rest of a single-quoted literal after its opening quote: the string it
\* denotes, and whether the literal is well formed (closed by its last token)
ScanString(toks, acc) ==
    IF toks = <<>> THEN [ok |-> FALSE, s |-> acc]
    ELSE IF Head(toks) = "'" THEN [ok |-> Tail(toks) = <<>>, s |-> acc]
    ELSE IF Head(toks) = "\n" THEN [ok |-> FALSE, s |-> acc]
    ELSE IF Head(toks) = "\\"
    THEN IF Len(toks) < 2 THEN [ok |-> FALSE, s |-> acc]
         ELSE LET c == toks[2]
                  d == IF c = "n" THEN <<"\n">>
                       ELSE IF c = "t" THEN <<"\t">>
                       ELSE IF c = "r" THEN <<"\r">>
                       ELSE IF c = "\n" THEN <<>>
                       ELSE <<c>>
              IN ScanString(Tail(Tail(toks)), acc \o d)
    ELSE ScanString(Tail(toks), Append(acc, Head(toks)))

\* the value of a single-quoted string literal
DecodeString(lit) ==
    IF lit = <<>> \/ Head(lit) # "'" THEN ThrowV
    ELSE LET r == ScanString(Tail(lit), <<>>) IN
         IF r.ok THEN StrV(r.s) ELSE ThrowV

RECURSIVE SplitTop(_, _, _, _)
\* an argument list split at its top-level commas
SplitTop(toks, inQuote, depth, cur) ==
    IF toks = <<>> THEN <<cur>>
    ELSE LET c == Head(toks)
             rest == Tail(toks)
         IN
         IF inQuote
         THEN IF c = "\\" /\ rest # <<>>
              THEN SplitTop(Tail(rest), TRUE, depth, cur \o <<c, Head(rest)>>)
              ELSE SplitTop(rest, c # "'", depth, Append(cur, c))
         ELSE IF c = "'" THEN SplitTop(rest, TRUE, depth, Append(cur, c))
         ELSE IF c \in {"(", "[", "{"} THEN SplitTop(rest, FALSE, depth + 1, Append(cur, c))
         ELSE IF c \in {")", "]", "}"} THEN SplitTop(rest, FALSE, depth - 1, Append(cur, c))
         ELSE IF c = "," /\ depth = 0
         THEN <<cur>> \o SplitTop(IF rest # <<>> /\ Head(rest) = " " THEN Tail(rest) ELSE rest,
                                  FALSE, 0, <<>>)
         ELSE SplitTop(rest, FALSE, depth, Append(cur, c))

SplitArgs(toks) == IF toks = <<>> THEN <<>> ELSE SplitTop(toks, FALSE, 0, <<>>)

\* the tokens between the parenthesis at position open and the last token
Inside(toks, open) ==
    IF Len(toks) > open /\ toks[open] = "(" /\ toks[Len(toks)] = ")"
    THEN SubSeq(toks, open + 1, Len(toks) - 1)
    ELSE <<"?">>

\* the value of one argument literal
DecodeLit(lit) ==
    IF lit = <<>> THEN ThrowV
    ELSE IF Head(lit) = "'" THEN DecodeString(lit)
    ELSE IF Head(lit) = "z" THEN SchemaV(lit)
    ELSE IF Head(lit) = "BigInt"
    THEN LET v == DecodeString(Inside(lit, 2)) IN
         IF v = ThrowV THEN ThrowV ELSE BigInt(v.s)
    ELSE IF Len(lit) >= 3 /\ SubSeq(lit, 1, 3) = <<"new", " ", "RegExp">>
    THEN LET v == DecodeString(Inside(lit, 4)) IN
         IF v = ThrowV THEN ThrowV ELSE RegExp(v.s)
    ELSE IF Head(lit) = "{"
    THEN IF Len(lit) >= 4 /\ lit[2] = " " /\ lit[Len(lit) - 1] = " " /\ lit[Len(lit)] = "}"
         THEN ObjV(SubSeq(lit, 3, Len(lit) - 2))
         ELSE ThrowV
    ELSE IF lit = <<"true">> THEN BoolV(TRUE)
    ELSE IF lit = <<"false">> THEN BoolV(FALSE)
    ELSE IF lit = <<"NaN">> THEN NaNV
    ELSE IF IsDigits(lit) THEN NumV(DecVal(lit))
    ELSE IF Head(lit) = "-" /\ IsDigits(Tail(lit)) THEN NumV(0 - DecVal(Tail(lit)))
    ELSE ThrowV

\* the values of the arguments of a constructor: the members of an array
\* literal, nothing for the empty shape of z.object({})
DecodeCtorArgs(toks) ==
    LET args == SplitArgs(toks) IN
    IF Len(args) = 1 /\ Len(args[1]) >= 2 /\ Head(args[1]) = "["
    THEN LET items == SplitArgs(SubSeq(args[1], 2, Len(args[1]) - 1)) IN
         [i \in 1..Len(items) |-> DecodeLit(items[i])]
    ELSE IF args = << <<"{", "}">> >> THEN <<>>
    ELSE [i \in 1..Len(args) |-> DecodeLit(args[i])]

\* the class of the validator a constructor returns
CtorClass(fn) ==
    IF fn \in SimpleTags THEN ClassOf[fn]
    ELSE CASE fn = "enum" -> "ZodEnum"
           [] fn = "literal" -> "ZodLiteral"
           [] fn = "array" -> "ZodArray"
           [] fn = "tuple" -> "ZodTuple"
           [] fn = "object" -> "ZodObject"
           [] fn = "record" -> "ZodRecord"
           [] fn = "map" -> "ZodMap"
           [] fn = "set" -> "ZodSet"
           [] fn = "union" -> "ZodUnion"
           [] fn = "intersection" -> "ZodIntersection"
           [] OTHER -> "?"

\* the validator a constructor piece z.<fn>(...) or z.coerce.<fn>() denotes
HostCtor(piece) ==
    IF Len(piece) >= 7 /\ SubSeq(piece, 1, 4) = <<"z", ".", "coerce", ".">>
    THEN ZCoerce(piece[5], CtorClass(piece[5]))
    ELSE IF Len(piece) >= 5 /\ SubSeq(piece, 1, 2) = <<"z", ".">>
    THEN LET args == DecodeCtorArgs(Inside(piece, 4)) IN
         IF \E i \in 1..Len(args) : args[i] = ThrowV THEN Threw
         ELSE Z(piece[3], CtorClass(piece[3]), args)
    ELSE Threw

\* the validator s.<m>(args) returns, for a call piece .<m>(...)
HostCall(s, piece) ==
    IF s = Threw \/ Len(piece) < 4 \/ Head(piece) # "." THEN Threw
    ELSE LET m == piece[2]
             lits == SplitArgs(Inside(piece, 3))
             args == [i \in 1..Len(lits) |-> DecodeLit(lits[i])]
         IN
         IF \E i \in 1..Len(args) : args[i] = ThrowV THEN Threw
         ELSE IF m = "nonempty" /\ s.kind = "ZodString"
              THEN AddCall(s, "min", <<NumV(1)>> \o args, "ZodString")
         ELSE IF m = "describe" /\ Len(args) = 1
              THEN [AddCall(s, m, args, s.kind) EXCEPT !.description = Some(args[1].s)]
         ELSE AddCall(s, m, args,
                      CASE m \in {"optional", "nullish"} -> "ZodOptional"
                        [] m = "nullable" -> "ZodNullable"
                        [] m = "default" -> "ZodDefault"
                        [] m = "catch" -> "ZodCatch"
                        [] m = "readonly" -> "ZodReadonly"
                        [] OTHER -> s.kind)

RECURSIVE HostChain(_, _, _)
HostChain(s, pieces, i) ==
    IF i > Len(pieces) THEN s ELSE HostChain(HostCall(s, pieces[i]), pieces, i + 1)

\* the validator the field expression denotes
HostCompile(pieces) ==
    IF pieces = <<>> THEN Threw ELSE HostChain(HostCtor(pieces[1]), pieces, 2)

----------------------------------------------------------------------------
(* zod's parse, for the validators the model gives values to: strings,    *)
(* numbers, booleans, the sentinels, enums and literals of strings, and    *)
(* the wrapping modifiers around them.                                     *)

Lowers == <<"a", "b", "c", "d", "m", "n", "x">>
Uppers == <<"A", "B", "C", "D", "M", "N", "X">>

\* String.prototype.toLowerCase / toUpperCase on the letters above
MapChars(s, from, to) ==
    [i \in 1..Len(s) |->
        IF \E k \in 1..Len(from) : from[k] = s[i]
        THEN to[CHOOSE k \in 1..Len(from) : from[k] = s[i]]
        ELSE s[i]]

StartsWith(s, prefix) == Len(s) >= Len(prefix) /\ SubSeq(s, 1, Len(prefix)) = prefix
EndsWith(s, suffix) ==
    Len(s) >= Len(suffix) /\ SubSeq(s, Len(s) - Len(suffix) + 1, Len(s)) = suffix

\* a parse result: success with the output value, or failure with the issues' messages
Ok(v) == [ok |-> TRUE, value |-> v, issues |-> <<>>]
Fail(msgs) == [ok |-> FALSE, value |-> UndefV, issues |-> msgs]
InvalidType == <<"invalid_type">>

\* the message of a check: the one passed, or zod's own
Msg(call, k) == IF Len(call.args) >= k THEN call.args[k].s ELSE <<"default message">>

\* a bound that is NaN never rejects
IsNum(v) == v.t = "number" /\ v.s = <<>>

StringCheckTags == {"min", "max", "length", "trim", "toLowerCase", "toUpperCase",
                    "startsWith", "endsWith", "ip", "ipv4", "ipv6"}

HexDigits == {"0", "1", "2", "3", "4", "5", "6", "7", "8", "9", "a", "b", "c", "d", "e", "f"}

\* a dotted quad of one-digit groups
IsIPv4(data) ==
    /\ Len(data) = 7
    /\ \A i \in 1..7 : IF i % 2 = 1 THEN IsDigit(data[i]) ELSE data[i] = "."

\* groups of hexadecimal digits separated by colons
IsIPv6(data) ==
    /\ Len(data) >= 2
    /\ \E i \in 1..Len(data) : data[i] = ":"
    /\ \A i \in 1..Len(data) : data[i] \in HexDigits \cup {":"}

\* the address families a call of ip / ipv4 / ipv6 accepts: zod's ip check
\* accepts both when no version is given
IpVersions(c) ==
    CASE c.m = "ipv4" -> {"v4"}
      [] c.m = "ipv6" -> {"v6"}
      [] OTHER ->
            IF c.args = <<>> \/ c.args[1].s = <<>> THEN {"v4", "v6"}
            ELSE IF c.args[1].s = <<"version", ":", " ", "'", "v", "6", "'">> THEN {"v6"}
            ELSE IF c.args[1].s = <<"version", ":", " ", "'", "v", "4", "'">> THEN {"v4"}
            ELSE {}

IsIP(data, versions) ==
    \/ "v4" \in versions /\ IsIPv4(data)
    \/ "v6" \in versions /\ IsIPv6(data)
NumberCheckTags == {"min", "max", "int", "positive", "negative", "multipleOf",
                    "finite", "safe"}
WrapperTags == {"optional", "nullable", "nullish", "default", "catch", "readonly", "describe"}

RECURSIVE StringChecks(_, _, _, _)
\* ZodString runs its checks in the order they were chained; a transform
\* replaces the data the later checks see
StringChecks(data, calls, i, issues) ==
    IF i > Len(calls) THEN (IF issues = <<>> THEN Ok(StrV(data)) ELSE Fail(issues))
    ELSE LET c == calls[i]
             bad(msg) == StringChecks(data, calls, i + 1, Append(issues, msg))
             good == StringChecks(data, calls, i + 1, issues)
         IN
         CASE c.m = "min" -> IF IsNum(c.args[1]) /\ Len(data) < c.args[1].n THEN bad(Msg(c, 2)) ELSE good
           [] c.m = "max" -> IF IsNum(c.args[1]) /\ Len(data) > c.args[1].n THEN bad(Msg(c, 2)) ELSE good
           [] c.m = "length" -> IF IsNum(c.args[1]) /\ Len(data) # c.args[1].n THEN bad(Msg(c, 2)) ELSE good
           [] c.m = "trim" -> StringChecks(Trim(data), calls, i + 1, issues)
           [] c.m = "toLowerCase" -> StringChecks(MapChars(data, Uppers, Lowers), calls, i + 1, issues)
           [] c.m = "toUpperCase" -> StringChecks(MapChars(data, Lowers, Uppers), calls, i + 1, issues)
           [] c.m = "startsWith" -> IF StartsWith(data, c.args[1].s) THEN good ELSE bad(Msg(c, 2))
           [] c.m = "endsWith" -> IF EndsWith(data, c.args[1].s) THEN good ELSE bad(Msg(c, 2))
           [] c.m \in {"ip", "ipv4", "ipv6"} ->
                IF IsIP(data, IpVersions(c)) THEN good ELSE bad(<<"invalid_string">>)
           [] OTHER -> good

RECURSIVE NumberChecks(_, _, _, _)
NumberChecks(n, calls, i, issues) ==
    IF i > Len(calls) THEN (IF issues = <<>> THEN Ok(NumV(n)) ELSE Fail(issues))
    ELSE LET c == calls[i]
             bad(msg) == NumberChecks(n, calls, i + 1, Append(issues, msg))
             good == NumberChecks(n, calls, i + 1, issues)
         IN
         CASE c.m = "min" -> IF IsNum(c.args[1]) /\ n < c.args[1].n THEN bad(Msg(c, 2)) ELSE good
           [] c.m = "max" -> IF IsNum(c.args[1]) /\ n > c.args[1].n THEN bad(Msg(c, 2)) ELSE good
           [] c.m = "positive" -> IF n > 0 THEN good ELSE bad(Msg(c, 1))
           [] c.m = "negative" -> IF n < 0 THEN good ELSE bad(Msg(c, 1))
           [] c.m = "multipleOf" ->
                IF IsNum(c.args[1]) /\ c.args[1].n # 0 /\ n % (IF c.args[1].n < 0 THEN 0 - c.args[1].n ELSE c.args[1].n) = 0
                THEN good ELSE bad(Msg(c, 2))
           [] OTHER -> good

\* String(v), what z.coerce.string() makes of an input
ToStringV(v) ==
    CASE v.t = "string" -> v.s
      [] v.t = "number" -> NumText(v)
      [] v.t = "boolean" -> IF v.n = 1 THEN <<"t", "r", "u", "e">> ELSE <<"f", "a", "l", "s", "e">>
      [] v.t = "null" -> <<"n", "u", "l", "l">>
      [] OTHER -> <<"u", "n", "d", "e", "f", "i", "n", "e", "d">>

\* Number(v), what z.coerce.number() makes of an input
ToNumberV(v) ==
    CASE v.t = "number" -> v
      [] v.t = "string" -> Number(v.s)
      [] v.t = "boolean" -> NumV(v.n)
      [] v.t = "null" -> NumV(0)
      [] OTHER -> NaNV

\* parse by the validator a constructor built, with the checks chained on it
ParseBase(ctor, checks, v) ==
    CASE ctor.fn = "string" ->
            IF ctor.coerce THEN StringChecks(ToStringV(v), checks, 1, <<>>)
            ELSE IF v.t = "string" THEN StringChecks(v.s, checks, 1, <<>>)
            ELSE Fail(<<InvalidType>>)
      [] ctor.fn = "number" ->
            LET n == IF ctor.coerce THEN ToNumberV(v) ELSE v IN
            IF IsNum(n) THEN NumberChecks(n.n, checks, 1, <<>>) ELSE Fail(<<InvalidType>>)
      [] ctor.fn = "boolean" ->
            IF ctor.coerce THEN Ok(BoolV(~(v.t \in {"undefined", "null"} \/ v = StrV(<<>>)
                                           \/ v = NumV(0) \/ v = NaNV \/ v = BoolV(FALSE))))
            ELSE IF v.t = "boolean" THEN Ok(v) ELSE Fail(<<InvalidType>>)
      [] ctor.fn \in {"any", "unknown"} -> Ok(v)
      [] ctor.fn = "never" -> Fail(<<InvalidType>>)
      [] ctor.fn = "null" -> IF v.t = "null" THEN Ok(v) ELSE Fail(<<InvalidType>>)
      [] ctor.fn \in {"undefined", "void"} -> IF v.t = "undefined" THEN Ok(v) ELSE Fail(<<InvalidType>>)
      [] ctor.fn \in {"enum", "literal"} ->
            IF \E i \in 1..Len(ctor.args) : ctor.args[i] = v THEN Ok(v) ELSE Fail(<<InvalidType>>)
      [] OTHER -> Fail(<<InvalidType>>)

\* the validators parse is modelled for
Parseable(s) ==
    /\ s.ctor.fn \in {"string", "number", "boolean", "any", "unknown", "never", "null",
                      "undefined", "void", "enum", "literal"}
    /\ \A i \in 1..Len(s.calls) :
          s.calls[i].m \in WrapperTags
              \cup (IF s.ctor.fn = "string" THEN StringCheckTags ELSE {})
              \cup (IF s.ctor.fn = "number" THEN NumberCheckTags ELSE {})

RECURSIVE ParseChain(_, _, _)
\* parse by the validator made of the constructor and the first k calls of s:
\* a wrapper decides on the input and hands the rest to the validator it wraps
ParseChain(s, k, v) ==
    IF k = 0 \/ s.calls[k].m \notin WrapperTags
    THEN ParseBase(s.ctor, SubSeq(s.calls, 1, k), v)
    ELSE LET c == s.calls[k] IN
         CASE c.m = "optional" -> IF v.t = "undefined" THEN Ok(v) ELSE ParseChain(s, k - 1, v)
           [] c.m = "nullable" -> IF v.t = "null" THEN Ok(v) ELSE ParseChain(s, k - 1, v)
           [] c.m = "nullish" -> IF v.t \in {"undefined", "null"} THEN Ok(v) ELSE ParseChain(s, k - 1, v)
           [] c.m = "default" ->
                IF v.t = "undefined" THEN ParseChain(s, k - 1, c.args[1]) ELSE ParseChain(s, k - 1, v)
           [] c.m = "catch" ->
                LET r == ParseChain(s, k - 1, v) IN IF r.ok THEN r ELSE Ok(c.args[1])
           [] OTHER -> ParseChain(s, k - 1, v)

\* schema.parse(v)
Parse(s, v) == ParseChain(s, Len(s.calls), v)

----------------------------------------------------------------------------
(* The inputs the operations are run on. *)

\* a message and a description that need escaping
Message == <<"m">>
QuoteMessage == <<"i", "'", "s">>
Description == <<"d", "'", "\\", "\n">>

\* the rules a field's validations are drawn from: every category of rule,
\* and one tag outside the rule vocabulary
Rules ==
    { Rule("min", <<"3">>, Message),
      Rule("length", <<"2">>, Message),
      Rule("email", <<>>, QuoteMessage),
      Rule("regex", <<"\\", "(">>, Message),
      Rule("ip", <<>>, <<>>),
      Rule("datetime", <<>>, <<>>),
      Rule("trim", <<>>, <<>>),
      Rule("int", <<>>, Message),
      Rule("nonempty", <<>>, <<>>),
      Rule("optional", <<>>, <<>>),
      Rule("nullable", <<>>, <<>>),
      Rule("default", <<"1", "0">>, <<>>),
      Rule("default", <<"t", "r", "u", "e">>, <<>>),
      Rule("catch", <<"0", "7">>, <<>>),
      Rule("readonly", <<>>, <<>>),
      Rule("custom", <<"3">>, Message) }

\* the params a field of each type is given, without a description
TypeParams(type) ==
    CASE type = "string" ->
            {NoParams, [NoParams EXCEPT !.coerce = TRUE]}
      [] type = "enum" ->
            {[NoParams EXCEPT !.enumValues = Some(<< <<"a">>, <<"b", "'">> >>)]}
      [] type = "array" ->
            {[NoParams EXCEPT !.elementType = Some("string")]}
      [] type = "object" ->
            {[NoParams EXCEPT !.isStrict = TRUE, !.isPassthrough = TRUE]}
      [] OTHER -> {NoParams}

Types == {"string", "number", "boolean", "bigint", "enum", "array", "object",
          "nonexistent"}

\* every field of the model: a type, its params with or without a
\* description, and at most MaxRules rules
IsModelField(f) ==
    \E type \in Types :
        \E p \in TypeParams(type), d \in {None, Some(Description)},
           rules \in SeqUpTo(Rules, MaxRules) :
            f = Field(<<"x">>, type, rules, [p EXCEPT !.description = d])

\* the values handed to parse
Inputs == { StrV(<<" ", " ", "a", " ", " ">>), StrV(<<"a", "b", "c">>), NumV(5),
            UndefV, NullV }

----------------------------------------------------------------------------
(* Field-level runs: one field, both backends, then parse. *)

\* the client, the prompt message and the generator before anything was
\* handed to them
NoCall == [op |-> "none", entries |-> <<>>, variables |-> None]
Pending == [state |-> "pending", values |-> <<>>, error |-> <<>>]

ClientIdle ==
    /\ invoked = NoCall
    /\ requests = <<>>
    /\ inflight = {}
    /\ answered = <<>>
    /\ slots = <<>>
    /\ outcome = Pending

TextIdle ==
    /\ template = <<>>
    /\ variables = <<>>
    /\ interpolated = <<>>
    /\ raw = <<>>

CliIdle ==
    /\ prompts = <<>>
    /\ groups = <<>>
    /\ declaration = <<>>

Init ==
    /\ IsModelField(field)
    /\ schema = Threw
    /\ source = <<>>
    /\ input = UndefV
    /\ result = Fail(<<>>)
    /\ str = <<>>
    /\ escaped = <<>>
    /\ fields = <<>>
    /\ objSource = <<>>
    /\ objSchema = Threw
    /\ ran = {}
    /\ ClientIdle
    /\ TextIdle
    /\ CliIdle

BuildFieldSchema ==
    /\ "buildFieldSchema" \notin ran
    /\ schema' = buildFieldSchema(field)
    /\ ran' = ran \cup {"buildFieldSchema"}
    /\ UNCHANGED <<field, source, input, result, str, escaped, fields, objSource, objSchema,
                   clientVars, textVars, cliVars>>

BuildFieldSource ==
    /\ "buildFieldSource" \notin ran
    /\ source' = buildFieldSource(field)
    /\ ran' = ran \cup {"buildFieldSource"}
    /\ UNCHANGED <<field, schema, input, result, str, escaped, fields, objSource, objSchema,
                   clientVars, textVars, cliVars>>

ParseInput(v) ==
    /\ "buildFieldSchema" \in ran
    /\ "buildFieldSource" \in ran
    /\ "parse" \notin ran
    /\ schema # Threw
    /\ Parseable(schema)
    /\ input' = v
    /\ result' = Parse(schema, v)
    /\ ran' = ran \cup {"parse"}
    /\ UNCHANGED <<field, schema, source, str, escaped, fields, objSource, objSchema,
                   clientVars, textVars, cliVars>>

Next ==
    \/ BuildFieldSchema
    \/ BuildFieldSource
    \/ \E v \in Inputs : ParseInput(v)

Spec == Init /\ [][Next]_vars

----------------------------------------------------------------------------
(* Escape runs: escapeString on one string. *)

\* an ordinary character, a letter that names an escape, and the three
\* characters escapeString rewrites
Chars == {"a", "n", "'", "\\", "\n"}

InitEscape ==
    /\ str \in SeqUpTo(Chars, MaxStrLen)
    /\ escaped = <<>>
    /\ field = Field(<<"x">>, "string", <<>>, NoParams)
    /\ schema = Threw
    /\ source = <<>>
    /\ input = UndefV
    /\ result = Fail(<<>>)
    /\ fields = <<>>
    /\ objSource = <<>>
    /\ objSchema = Threw
    /\ ran = {}
    /\ ClientIdle
    /\ TextIdle
    /\ CliIdle

EscapeString ==
    /\ "escapeString" \notin ran
    /\ escaped' = escapeString(str)
    /\ ran' = ran \cup {"escapeString"}
    /\ UNCHANGED <<field, schema, source, input, result, str, fields, objSource, objSchema,
                   clientVars, textVars, cliVars>>

NextEscape == EscapeString

SpecEscape == InitEscape /\ [][NextEscape]_vars

----------------------------------------------------------------------------
(* Object-level runs: a field list, schemaFieldsToZodSource and buildZodSchema. *)

RECURSIVE ShapeFold(_, _, _)
\* the loop of buildZodSchema over fs[i..]
ShapeFold(shape, fs, i) ==
    IF i > Len(fs) THEN shape
    ELSE ShapeFold(PutShape(shape, fs[i].name, buildFieldSchema(fs[i])), fs, i + 1)

\* a plausible slip: the object is built closed
buildZodSchema_Strict(fs) ==
    IF \E i \in 1..Len(fs) : buildFieldSchema(fs[i]) = Threw
    THEN Threw
    ELSE AddCall(Z("object", "ZodObject", ShapeFold(<<>>, fs, 1)), "strict", <<>>, "ZodObject")

\* z.object(shape): the object validator whose constructor arguments are the
\* properties of shape; Threw when a field's conversion raised
buildZodSchema(fs) ==
    IF \E i \in 1..Len(fs) : buildFieldSchema(fs[i]) = Threw
    THEN Threw
    ELSE Z("object", "ZodObject", ShapeFold(<<>>, fs, 1))

\* an object value: its entries <<key, value>> in key order
Entry(key, value) == <<key, value>>
HasKey(o, key) == \E i \in 1..Len(o.s) : o.s[i][1] = key
Get(o, key) ==
    IF HasKey(o, key) THEN o.s[CHOOSE i \in 1..Len(o.s) : o.s[i][1] = key][2] ELSE UndefV

\* parse by an object validator: every property of the shape parses the value
\* at its key; a key outside the shape is dropped, kept by passthrough, or an
\* issue under strict
ParseObjectValue(s, v) ==
    IF v.t # "object" THEN Fail(<<InvalidType>>)
    ELSE LET shape == s.ctor.args
             mode == IF \E i \in 1..Len(s.calls) : s.calls[i].m = "strict" THEN "strict"
                     ELSE IF \E i \in 1..Len(s.calls) : s.calls[i].m = "passthrough"
                     THEN "passthrough" ELSE "strip"
             inShape(e) == \E i \in 1..Len(shape) : shape[i].name = e[1]
             extra(e) == ~inShape(e)
             rs == [i \in 1..Len(shape) |-> Parse(shape[i].schema, Get(v, shape[i].name))]
             issues == Concat([i \in 1..Len(shape) |-> rs[i].issues])
                       \o (IF mode = "strict" /\ SelectSeq(v.s, extra) # <<>>
                           THEN << <<"unrecognized_keys">> >> ELSE <<>>)
             kept == [i \in 1..Len(shape) |->
                        IF HasKey(v, shape[i].name) \/ rs[i].value # UndefV
                        THEN << Entry(shape[i].name, rs[i].value) >> ELSE <<>>]
         IN IF issues # <<>> THEN Fail(issues)
            ELSE Ok(ObjV(Concat(kept)
                         \o (IF mode = "passthrough" THEN SelectSeq(v.s, extra) ELSE <<>>)))

\* the values handed to parse in object-level runs: the empty object, objects
\* with keys, and a value that is no object
ObjInputs ==
    { ObjV(<<>>),
      ObjV(<< Entry(<<"a">>, StrV(<<"v">>)) >>),
      ObjV(<< Entry(<<"a">>, NumV(0)), Entry(<<"z">>, NumV(1)) >>),
      NumV(5) }

ObjFields ==
    { Field(name, f.type, f.validations, f.params) :
        name \in {<<"a">>, <<"b", "c">>},
        f \in { Field(<<>>, "string", <<>>, [NoParams EXCEPT !.description = Some(Description)]),
                Field(<<>>, "string", <<Rule("default", <<"a", "\n">>, <<>>)>>, NoParams),
                Field(<<>>, "number", <<Rule("min", <<"0">>, QuoteMessage),
                                        Rule("max", <<"1">>, Message)>>, NoParams),
                Field(<<>>, "enum", <<>>,
                      [NoParams EXCEPT !.enumValues = Some(<< <<"a">>, <<"\n">> >>)]),
                Field(<<>>, "object", <<Rule("optional", <<>>, <<>>)>>,
                      [NoParams EXCEPT !.isStrict = TRUE]),
                Field(<<>>, "nonexistent", <<>>, NoParams) } }

InitObject ==
    /\ fields \in SeqUpTo(ObjFields, MaxFields)
    /\ objSource = <<>>
    /\ objSchema = Threw
    /\ field = Field(<<"x">>, "string", <<>>, NoParams)
    /\ schema = Threw
    /\ source = <<>>
    /\ input = UndefV
    /\ result = Fail(<<>>)
    /\ str = <<>>
    /\ escaped = <<>>
    /\ ran = {}
    /\ ClientIdle
    /\ TextIdle
    /\ CliIdle

SchemaFieldsToZodSource ==
    /\ "schemaFieldsToZodSource" \notin ran
    /\ objSource' = schemaFieldsToZodSource(fields)
    /\ ran' = ran \cup {"schemaFieldsToZodSource"}
    /\ UNCHANGED <<field, schema, source, input, result, str, escaped, fields, objSchema,
                   clientVars, textVars, cliVars>>

BuildZodSchema ==
    /\ "buildZodSchema" \notin ran
    /\ objSchema' = buildZodSchema(fields)
    /\ ran' = ran \cup {"buildZodSchema"}
    /\ UNCHANGED <<field, schema, source, input, result, str, escaped, fields, objSource,
                   clientVars, textVars, cliVars>>

ParseObject(o) ==
    /\ "buildZodSchema" \in ran
    /\ "parse" \notin ran
    /\ objSchema # Threw
    /\ \A i \in 1..Len(objSchema.ctor.args) : Parseable(objSchema.ctor.args[i].schema)
    /\ input' = o
    /\ result' = ParseObjectValue(objSchema, o)
    /\ ran' = ran \cup {"parse"}
    /\ UNCHANGED <<field, schema, source, str, escaped, fields, objSource, objSchema,
                   clientVars, textVars, cliVars>>

NextObject ==
    \/ SchemaFieldsToZodSource
    \/ BuildZodSchema
    \/ \E o \in ObjInputs : ParseObject(o)

SpecObject == InitObject /\ [][NextObject]_vars

----------------------------------------------------------------------------
(* Type-level runs: one field of each parameterised type, its type-specific *)
(* params present, missing or malformed; both backends, then parse.         *)

\* a tag that is in neither type table
UnknownTag == "nonexistent"

\* the cases of the discriminated union of the model: a described number field
\* with a rule, and a case of two fields, one of an unknown type
Cases ==
    << Case(<<"a">>,
            << Field(<<"n">>, "number", <<Rule("min", <<"3">>, Message)>>,
                     [NoParams EXCEPT !.description = Some(<<"d">>)]) >>),
       Case(<<"b">>,
            << Field(<<"s">>, "string", <<Rule("trim", <<>>, <<>>)>>, NoParams),
               Field(<<"u">>, UnknownTag, <<>>, NoParams) >>) >>

\* the params a field of each parameterised type is given, without a description
ParamVariants(type) ==
    CASE type = "string" ->
            { [NoParams EXCEPT !.ipVersion = v] : v \in {None, Some(<<"v", "4">>), Some(<<"v", "6">>)} }
      [] type \in {"enum", "literal"} ->
            { [NoParams EXCEPT !.enumValues = e] :
                e \in {None, Some(<<>>), Some(<< <<>> >>), Some(<< <<"a">>, <<"b">> >>)} }
      [] type = "array" ->
            { [NoParams EXCEPT !.elementType = e] :
                e \in {None, Some("number"), Some(UnknownTag), Some("set")} }
            \cup
            { [NoParams EXCEPT !.isTuple = TRUE, !.tupleTypes = t] :
                t \in {None, Some(<<>>), Some(<<"string", UnknownTag>>)} }
      [] type \in {"record", "map"} ->
            { [NoParams EXCEPT !.keyType = k, !.valueType = v] :
                k \in {None, Some("string"), Some(UnknownTag)},
                v \in {None, Some("number"), Some(UnknownTag)} }
      [] type = "set" ->
            { [NoParams EXCEPT !.elementType = e] :
                e \in {None, Some("number"), Some(UnknownTag)} }
      [] type = "union" ->
            { [NoParams EXCEPT !.unionTypes = u, !.isDiscriminatedUnion = flag] :
                u \in {None, Some(<<>>), Some(<<"string", "number">>), Some(<<UnknownTag, "boolean">>)},
                flag \in BOOLEAN }
            \cup
            { [NoParams EXCEPT !.isDiscriminatedUnion = flag,
                               !.discriminatedUnion = Some(DiscriminatedUnion(<<"k">>, Cases))] :
                flag \in BOOLEAN }
      [] type = "intersection" ->
            { [NoParams EXCEPT !.unionTypes = u] :
                u \in {None, Some(<<"string">>), Some(<<"string", UnknownTag>>),
                       Some(<<UnknownTag, "number", "boolean">>)} }
      [] type = "object" ->
            { [NoParams EXCEPT !.isStrict = a, !.isPassthrough = b] : a, b \in BOOLEAN }

VariantTypes == {"string", "enum", "literal", "array", "record", "map", "set", "union",
                 "intersection", "object"}

\* no rule, the ip rule, or a modifier
VariantRules == { <<>>, <<Rule("ip", <<>>, <<>>)>>, <<Rule("optional", <<>>, <<>>)>> }

IsTypeField(f) ==
    \E type \in VariantTypes :
        \E p \in ParamVariants(type), d \in {None, Some(Description)}, rules \in VariantRules :
            f = Field(<<"x">>, type, rules, [p EXCEPT !.description = d])

IPv4Address == StrV(<<"1", ".", "2", ".", "3", ".", "4">>)
IPv6Address == StrV(<<":", ":", "1">>)

\* the values handed to parse in type-level runs
TypeInputs == { StrV(<<>>), StrV(<<"a">>), IPv4Address, IPv6Address, NumV(5), UndefV }

InitTypes ==
    /\ IsTypeField(field)
    /\ schema = Threw
    /\ source = <<>>
    /\ input = UndefV
    /\ result = Fail(<<>>)
    /\ str = <<>>
    /\ escaped = <<>>
    /\ fields = <<>>
    /\ objSource = <<>>
    /\ objSchema = Threw
    /\ ran = {}
    /\ ClientIdle
    /\ TextIdle
    /\ CliIdle

NextTypes ==
    \/ BuildFieldSchema
    \/ BuildFieldSource
    \/ \E v \in TypeInputs : ParseInput(v)

SpecTypes == InitTypes /\ [][NextTypes]_vars

----------------------------------------------------------------------------
(* Properties. *)

Ran(op) == op \in ran
BothBuilt == Ran("buildFieldSchema") /\ Ran("buildFieldSource")

\* the method names of the calls of a validator, and of the pieces of a text
Methods(calls) == [i \in 1..Len(calls) |-> calls[i].m]
PieceMethods(pieces) ==
    [i \in 1..Len(pieces) |-> IF Len(pieces[i]) >= 2 THEN pieces[i][2] ELSE "?"]

\* the calls a validator owes to the rules: not the openness call of an
\* object constructor, not the description
IsRuleMethod(m) == m \notin {"strict", "passthrough", "describe"}
RuleMethods(ms) == SelectSeq(ms, IsRuleMethod)

\* the rules of a field that the rule vocabulary knows
IsKnownRule(r) == r.type \in SourceRuleTags
KnownRules(f) == SelectSeq(f.validations, IsKnownRule)

\* method m is the effect of a rule with tag `tag`
EffectOf(m, tag) ==
    \/ m = tag
    \/ tag = "nonempty" /\ m = "min"
    \/ tag = "ip" /\ m \in {"ipv4", "ipv6"}

RECURSIVE InRuleOrder(_, _)
\* the methods ms are effects of distinct rules of tags, in the rules' order
InRuleOrder(ms, tags) ==
    IF ms = <<>> THEN TRUE
    ELSE IF tags = <<>> THEN FALSE
    ELSE \/ EffectOf(Head(ms), Head(tags)) /\ InRuleOrder(Tail(ms), Tail(tags))
         \/ InRuleOrder(ms, Tail(tags))

\* C1: the validator buildFieldSchema built and the validator the text of
\* buildFieldSource denotes have the same constructor, the same ordered chain of
\* calls with the same arguments, and the same description.
C1_Parity == BothBuilt => HostCompile(source) = schema

TrimRule == Rule("trim", <<>>, <<>>)
Min3Rule == Rule("min", <<"3">>, Message)
PaddedA == StrV(<<" ", " ", "a", " ", " ">>)
PlainString(f) == f.type = "string" /\ ~f.params.coerce

\* C2: rules take effect in the order of field.validations in both backends: the
\* calls the runtime validator owes to the rules are effects of rules in
\* declaration order, the source emits exactly one fragment per known rule in
\* declaration order, and a string field with [trim, min(3)] rejects "  a  " while
\* [min(3), trim] accepts it and returns "a".
C2_RuleOrder ==
    /\ (Ran("buildFieldSchema") /\ schema # Threw) =>
          InRuleOrder(RuleMethods(Methods(schema.calls)),
                      [i \in 1..Len(field.validations) |-> field.validations[i].type])
    /\ Ran("buildFieldSource") =>
          LET ms == RuleMethods(PieceMethods(Tail(source)))
              rs == KnownRules(field)
          IN /\ Len(ms) = Len(rs)
             /\ \A i \in 1..Len(ms) : EffectOf(ms[i], rs[i].type)
    /\ (Ran("parse") /\ PlainString(field) /\ input = PaddedA) =>
          /\ field.validations = <<TrimRule, Min3Rule>> => ~result.ok
          /\ field.validations = <<Min3Rule, TrimRule>> =>
                result.ok /\ result.value = StrV(<<"a">>)

C2_Witness ==
    /\ Ran("parse") /\ PlainString(field) /\ input = PaddedA
    /\ field.validations = <<Min3Rule, TrimRule>>
    /\ result.ok /\ result.value = StrV(<<"a">>)
    /\ Methods(HostCompile(source).calls) = <<"min", "trim">>

\* C3: a field whose type tag is outside the type vocabulary converts without an
\* exception to a validator that accepts every input unchanged, and its source
\* text starts with the constructor z.unknown().
C3_Leniency ==
    field.type \notin BuilderTags =>
        /\ Ran("buildFieldSchema") =>
              /\ schema # Threw
              /\ Parseable(schema)
              /\ \A v \in Inputs : Parse(schema, v) = Ok(v)
        /\ Ran("buildFieldSource") => Head(source) = <<"z", ".", "unknown", "(", ")">>
        /\ Ran("parse") => result = Ok(input)

C3_Witness ==
    /\ field.type = "nonexistent"
    /\ field.validations # <<>>
    /\ Ran("parse") /\ input = NumV(5) /\ result = Ok(NumV(5))
    /\ Head(source) = <<"z", ".", "unknown", "(", ")">>

\* C4: for every field with a non-empty params.description, whatever its type tag
\* and rules, the validator buildFieldSchema returns exposes that description.
C4_DescriptionPresent ==
    (Ran("buildFieldSchema") /\ schema # Threw /\ Truthy(field.params.description)) =>
        schema.description = field.params.description

\* C5: in the text of a field with a description the describe call is the last
\* call, it is the only describe call, and it denotes the description; the text
\* of a field without description has no describe call.
C5_DescribeLast ==
    Ran("buildFieldSource") =>
        LET ms == PieceMethods(source)
            rs == KnownRules(field)
        IN IF Truthy(field.params.description)
           THEN /\ Len(source) >= 2 + Len(rs)
                /\ ms[Len(ms)] = "describe"
                /\ \A i \in 1..(Len(ms) - 1) : ms[i] # "describe"
                /\ InRuleOrder(RuleMethods(SubSeq(ms, 2, Len(ms) - 1)),
                               [i \in 1..Len(rs) |-> rs[i].type])
                /\ Len(RuleMethods(SubSeq(ms, 2, Len(ms) - 1))) = Len(rs)
                /\ DecodeLit(Inside(source[Len(source)], 3)) = StrV(field.params.description[1])
           ELSE \A i \in 1..Len(ms) : ms[i] # "describe"

C5_Witness ==
    /\ Ran("buildFieldSource")
    /\ Truthy(field.params.description)
    /\ Len(field.validations) >= 2
    /\ field.validations[2].type = "readonly"
    /\ PieceMethods(source)[Len(source)] = "describe"

\* the lines of a text: the token runs between its newline tokens
SplitLines(toks) ==
    LET nl == {i \in 1..Len(toks) : toks[i] = "\n"}
        \* the position of the k-th newline; 0 before the text, Len + 1 after it
        pos(k) == IF k = 0 THEN 0
                  ELSE IF k > Cardinality(nl) THEN Len(toks) + 1
                  ELSE CHOOSE i \in nl : Cardinality({j \in nl : j < i}) = k - 1
    IN [k \in 1..(Cardinality(nl) + 1) |-> SubSeq(toks, pos(k - 1) + 1, pos(k) - 1)]

\* C6: the text of schemaFieldsToZodSource is the line `z.object({`, then one
\* line per input field, in input order, made of two spaces, the name, `: `, the
\* field expression and a trailing comma, then the line `})`; for an empty list
\* the join of no entries leaves one empty line between the envelope lines.
C6_SourceGrammar ==
    Ran("schemaFieldsToZodSource") =>
        LET ls == SplitLines(objSource) IN
        /\ Head(ls) = <<"z", ".", "object", "(", "{">>
        /\ ls[Len(ls)] = <<"}", ")">>
        /\ IF fields = <<>> THEN ls[2] = <<>> /\ Len(ls) = 3
           ELSE /\ Len(ls) = Len(fields) + 2
                /\ \A i \in 1..Len(fields) :
                      LET line == ls[i + 1]
                          n == Len(fields[i].name)
                      IN /\ Len(line) >= n + 5
                         /\ SubSeq(line, 1, 2) = <<" ", " ">>
                         /\ SubSeq(line, 3, n + 2) = fields[i].name
                         /\ SubSeq(line, n + 3, n + 4) = <<":", " ">>
                         /\ SubSeq(line, n + 5, Len(line) - 1) = FieldText(fields[i])
                         /\ line[Len(line)] = ","

C6_Witness ==
    /\ Ran("schemaFieldsToZodSource")
    /\ Len(fields) = 2
    /\ fields[1].name # fields[2].name
    /\ fields[1].params.description = Some(Description)
    /\ fields[2].type = "number"
    /\ Len(SplitLines(objSource)) = 4

RECURSIVE NoBareQuote(_)
\* every single quote of an escaped text follows a backslash that escapes it
NoBareQuote(toks) ==
    IF toks = <<>> THEN TRUE
    ELSE IF Head(toks) = "\\" THEN Len(toks) >= 2 /\ NoBareQuote(Tail(Tail(toks)))
    ELSE Head(toks) # "'" /\ NoBareQuote(Tail(toks))

\* C7: for every string of ordinary characters, quotes, backslashes and
\* newlines, reading 'escapeString(s)' as a single-quoted literal gives s back,
\* and the escaped text holds no unescaped quote and no raw newline.
C7_EscapeRoundTrip ==
    Ran("escapeString") =>
        /\ DecodeString(<<"'">> \o escaped \o <<"'">>) = StrV(str)
        /\ NoBareQuote(escaped)
        /\ \A i \in 1..Len(escaped) : escaped[i] # "\n"

C7_Witness ==
    /\ Ran("escapeString")
    /\ str = <<"'", "\\", "\n", "n">>
    /\ escaped = <<"\\", "'", "\\", "\\", "\\", "n", "n">>

IsDefaultRule(r) == r.type \in {"default", "catch"}
IsDefaultCall(c) == c.m \in {"default", "catch"}
IsDefaultPiece(p) == Len(p) >= 2 /\ p[2] \in {"default", "catch"}

\* the substitutes the runtime validator was given, in chain order
RuntimeDefaults(s) ==
    LET cs == SelectSeq(s.calls, IsDefaultCall) IN [i \in 1..Len(cs) |-> cs[i].args[1]]

\* the literals inside the .default(...) / .catch(...) fragments, in text order
DefaultLiterals(pieces) ==
    LET ps == SelectSeq(pieces, IsDefaultPiece) IN [i \in 1..Len(ps) |-> Inside(ps[i], 3)]

WithoutRule(f, i) ==
    [f EXCEPT !.validations = SubSeq(@, 1, i - 1) \o SubSeq(@, i + 1, Len(@))]

\* C9: a rule whose tag is outside the rule vocabulary is a no-op in both
\* backends: at every position of the validations list, the validator and the
\* text are those of the field without that rule, and no exception is added.
C9_UnknownRuleNoop ==
    \A i \in 1..Len(field.validations) :
        field.validations[i].type \notin SourceRuleTags \cup ApplicatorTags =>
            /\ Ran("buildFieldSchema") => schema = buildFieldSchema(WithoutRule(field, i))
            /\ Ran("buildFieldSource") => source = buildFieldSource(WithoutRule(field, i))

C9_Witness ==
    /\ BothBuilt
    /\ PlainString(field)
    /\ Len(field.validations) = 2
    /\ field.validations[1].type = "custom"
    /\ field.validations[2] = Min3Rule
    /\ Methods(schema.calls) = <<"min">>
    /\ PieceMethods(source) = <<".", "min">>

\* the base categories a rule tag acts on
Supports(f, tag) ==
    LET isArray == f.type = "array" /\ ~(f.params.isTuple /\ f.params.tupleTypes # None) IN
    CASE tag \in {"email", "url", "uuid", "cuid", "cuid2", "ulid", "regex", "startsWith",
                  "endsWith", "datetime", "ip", "trim", "toLowerCase", "toUpperCase"} ->
            f.type = "string"
      [] tag \in {"int", "positive", "negative", "multipleOf", "finite", "safe"} ->
            f.type = "number"
      [] tag \in {"min", "max"} -> f.type \in {"string", "number"} \/ isArray
      [] tag \in {"length", "nonempty"} -> f.type = "string" \/ isArray
      [] OTHER -> TRUE

\* C10: a rule whose category does not match the field's base type is skipped in
\* both backends: the validator and the text are those of the field without
\* that rule.
C10_MismatchSkipped ==
    (BothBuilt /\ field.type \in BuilderTags) =>
        \A i \in 1..Len(field.validations) :
            LET tag == field.validations[i].type IN
            (tag \in SourceRuleTags /\ ~Supports(field, tag)) =>
                /\ schema = buildFieldSchema(WithoutRule(field, i))
                /\ source = buildFieldSource(WithoutRule(field, i))

\* the runtime half of C10 alone: the validator is that of the field without
\* the mismatched rule
C10_RuntimeSkips ==
    (Ran("buildFieldSchema") /\ field.type \in BuilderTags) =>
        \A i \in 1..Len(field.validations) :
            LET tag == field.validations[i].type IN
            (tag \in SourceRuleTags /\ ~Supports(field, tag)) =>
                schema = buildFieldSchema(WithoutRule(field, i))

\* the wrapping modifiers, and the constraint rules
ModifierTags == {"optional", "nullable", "nullish", "default", "catch", "readonly"}
ConstraintTags == SourceRuleTags \ ModifierTags

OptionalRule == Rule("optional", <<>>, <<>>)
Length2Rule == Rule("length", <<"2">>, Message)

\* C11: on a string, number or array field, a constraint rule of the matching
\* category declared after a wrapping modifier still takes effect in the runtime
\* validator: its call is chained after the modifier's, and a string field with
\* [optional, length(2)] rejects the present value "abc".
C11_ConstraintAfterModifier ==
    /\ (Ran("buildFieldSchema") /\ schema # Threw
            /\ field.type \in {"string", "number", "array"}) =>
          \A i, j \in 1..Len(field.validations) :
              (i < j /\ field.validations[i].type \in ModifierTags
                     /\ field.validations[j].type \in ConstraintTags
                     /\ Supports(field, field.validations[j].type)) =>
                  \E k, l \in 1..Len(schema.calls) :
                      /\ k < l
                      /\ schema.calls[k].m = field.validations[i].type
                      /\ EffectOf(schema.calls[l].m, field.validations[j].type)
    /\ (Ran("parse") /\ PlainString(field)
            /\ field.validations = <<OptionalRule, Length2Rule>>
            /\ input = StrV(<<"a", "b", "c">>)) =>
          ~result.ok

\* the union entry takes the discriminated branch
IsDiscriminated(f) ==
    f.type = "union" /\ f.params.isDiscriminatedUnion /\ f.params.discriminatedUnion # None

\* the type-specific params of a known type are missing or empty
Malformed(f) ==
    LET p == f.params
        absent(opt) == opt = None \/ opt[1] = <<>>
    IN \/ f.type \in {"enum", "literal"} /\ absent(p.enumValues)
       \/ f.type = "union" /\ ~IsDiscriminated(f) /\ absent(p.unionTypes)
       \/ f.type = "array" /\ p.isTuple /\ p.tupleTypes = None
       \/ f.type = "union" /\ p.isDiscriminatedUnion /\ p.discriminatedUnion = None
       \/ f.type = "intersection" /\ (p.unionTypes = None \/ Len(p.unionTypes[1]) < 2)

AnyText == Ctor("unknown", <<>>)

\* C12: for a known type whose type-specific params are missing or empty,
\* neither backend raises: the runtime returns the validator of the empty or
\* default params (an enum of no values, the literal '', a union of the
\* unionTypes given, an array for a tuple flag without tupleTypes, an
\* intersection padded with accept-anything members), and the source backend
\* returns a well-formed constructor text.
C12_MalformedParams ==
    Malformed(field) =>
        /\ Ran("buildFieldSchema") =>
              /\ schema # Threw
              /\ field.type = "enum" => schema.ctor.fn = "enum" /\ schema.ctor.args = <<>>
              /\ field.type = "literal" =>
                    schema.ctor.fn = "literal" /\ schema.ctor.args = <<StrV(<<>>)>>
              /\ field.type = "union" =>
                    /\ schema.ctor.fn = "union"
                    /\ Len(schema.ctor.args) =
                          (IF field.params.unionTypes = None THEN 0
                           ELSE Len(field.params.unionTypes[1]))
              /\ field.type = "array" => schema.ctor.fn = "array"
              /\ field.type = "intersection" =>
                    /\ schema.ctor.fn = "intersection"
                    /\ Len(schema.ctor.args) = 2
                    /\ schema.ctor.args[2] = SchemaV(AnyText)
        /\ Ran("buildFieldSource") =>
              /\ source # <<>>
              /\ HostCtor(Head(source)) # Threw
              /\ HostCtor(Head(source)).kind # "?"

C12_Witness ==
    /\ BothBuilt
    /\ field.type = "enum"
    /\ field.params.enumValues = None
    /\ schema.ctor = [fn |-> "enum", coerce |-> FALSE, args |-> <<>>]
    /\ Head(source) = AnyText

\* C13: whatever the value strings of the rules, buildFieldSchema returns a
\* validator and does not raise.
C13_RuleValueNeverThrows == Ran("buildFieldSchema") => schema # Threw

\* the case object the claim describes: the literal of the case value on the
\* discriminator, then every case field as the field assembler builds it
CaseObject(du, c) ==
    ObjectText(<< [name |-> du.discriminator,
                   schema |-> Z("literal", "ZodLiteral", <<StrV(c.value)>>)] >>
               \o [j \in 1..Len(c.fields) |->
                      [name |-> c.fields[j].name, schema |-> buildFieldSchema(c.fields[j])]])

\* the runtime half of C14: the validator is the tagged union on the
\* discriminator, with one case object per case
C14_RuntimeRenders ==
    (Ran("buildFieldSchema") /\ IsDiscriminated(field)) =>
        LET du == field.params.discriminatedUnion[1] IN
        /\ schema.ctor.fn = "discriminatedUnion"
        /\ Len(schema.ctor.args) = 1 + Len(du.cases)
        /\ schema.ctor.args[1] = StrV(du.discriminator)
        /\ \A i \in 1..Len(du.cases) :
              schema.ctor.args[i + 1] = SchemaV(CaseObject(du, du.cases[i]))

\* C14: for a union field with isDiscriminatedUnion and discriminatedUnion, both
\* backends render the tagged union on the discriminator with one case object
\* per case (the literal of the case value plus every case field, assembled with
\* type, rules and description); the text is not an untagged z.union.
C14_DiscriminatedUnion ==
    (BothBuilt /\ IsDiscriminated(field)) =>
        /\ C14_RuntimeRenders
        /\ Head(source) = CtorText(schema.ctor)
        /\ HostCompile(source).ctor.fn # "union"

\* the nested type references of a field, one per argument of its constructor:
\* None for an absent elementType / valueType; an absent keyType stands for
\* 'string'
NestedRefs(f) ==
    LET p == f.params
        list(opt) == IF opt = None THEN <<>> ELSE [i \in 1..Len(opt[1]) |-> Some(opt[1][i])]
        key == IF p.keyType = None THEN Some("string") ELSE p.keyType
        pad(ms, i) == IF Len(ms) >= i THEN ms[i] ELSE None
    IN CASE f.type = "array" ->
                IF p.isTuple /\ p.tupleTypes # None THEN list(p.tupleTypes) ELSE <<p.elementType>>
         [] f.type \in {"record", "map"} -> <<key, p.valueType>>
         [] f.type = "set" -> <<p.elementType>>
         [] f.type = "union" -> IF IsDiscriminated(f) THEN <<>> ELSE list(p.unionTypes)
         [] f.type = "intersection" -> <<pad(list(p.unionTypes), 1), pad(list(p.unionTypes), 2)>>
         [] OTHER -> <<>>

\* C15: at every nested position whose tag is absent or not a recognised tag,
\* both backends put the accept-anything validator, as for a top-level
\* unknown tag.
C15_NestedPermissive ==
    LET refs == NestedRefs(field)
        open(i) == refs[i] = None \/ refs[i][1] \notin BuilderTags
        any(args, i) == i <= Len(args) /\ args[i] = SchemaV(AnyText)
    IN /\ Ran("buildFieldSchema") =>
            \A i \in 1..Len(refs) : open(i) => any(schema.ctor.args, i)
       /\ Ran("buildFieldSource") =>
            \A i \in 1..Len(refs) : open(i) => any(HostCtor(Head(source)).ctor.args, i)

\* the source half of C15 alone
C15_SourcePermissive ==
    LET refs == NestedRefs(field) IN
    Ran("buildFieldSource") =>
        \A i \in 1..Len(refs) :
            (refs[i] = None \/ refs[i][1] \notin BuilderTags) =>
                /\ i <= Len(HostCtor(Head(source)).ctor.args)
                /\ HostCtor(Head(source)).ctor.args[i] = SchemaV(AnyText)

\* the single value a literal field accepts: enumValues[0], or '' without it
LiteralValue(f) ==
    IF f.params.enumValues # None /\ f.params.enumValues[1] # <<>>
    THEN f.params.enumValues[1][1]
    ELSE <<>>

LiteralCtor(f) == [fn |-> "literal", coerce |-> FALSE, args |-> <<StrV(LiteralValue(f))>>]

\* the runtime half of C16 alone
C16_RuntimeLiteral ==
    field.type = "literal" =>
        /\ Ran("buildFieldSchema") => schema.ctor = LiteralCtor(field)
        /\ (Ran("parse") /\ field.validations = <<>>) =>
              (result.ok <=> input = StrV(LiteralValue(field)))

\* C16: a literal field accepts exactly enumValues[0]; with enumValues absent,
\* empty or starting with the empty string, both backends build the literal of
\* the empty string, which accepts only "".
C16_Literal ==
    field.type = "literal" =>
        /\ C16_RuntimeLiteral
        /\ Ran("buildFieldSource") => HostCtor(Head(source)).ctor = LiteralCtor(field)
        /\ (Ran("parse") /\ field.validations = <<>>) =>
              (Parse(HostCompile(source), input).ok <=> input = StrV(LiteralValue(field)))

IpRule == Rule("ip", <<>>, <<>>)

\* the address family the claim gives an ip rule: IPv6 for version 'v6',
\* IPv4 otherwise
ClaimedIP(f, v) ==
    /\ v.t = "string"
    /\ IF f.params.ipVersion = Some(<<"v", "6">>) THEN IsIPv6(v.s) ELSE IsIPv4(v.s)

\* the source half of C17 alone: the validator the text denotes accepts the
\* claimed family only
C17_SourceIpVersion ==
    (Ran("parse") /\ PlainString(field) /\ field.validations = <<IpRule>>) =>
        (Parse(HostCompile(source), input).ok <=> ClaimedIP(field, input))

\* C17: a string field with the ip rule accepts exactly the IPv6 addresses when
\* the version is 'v6' and exactly the IPv4 addresses otherwise, in both
\* backends; with no version an IPv6 address is rejected.
C17_IpVersion ==
    (Ran("parse") /\ PlainString(field) /\ field.validations = <<IpRule>>) =>
        /\ result.ok <=> ClaimedIP(field, input)
        /\ C17_SourceIpVersion

\* C18: for a string field with the ip rule and a version, the fragment the
\* source backend emits is .ip({ version: '<version>' }), which denotes the call
\* the runtime backend made.
C18_IpCallText ==
    (BothBuilt /\ PlainString(field) /\ field.validations = <<IpRule>>
        /\ field.params.ipVersion # None) =>
        /\ source[2] = Call("ip", << <<"{", " ", "version", ":", " ">>
                                     \o Quoted(field.params.ipVersion[1]) \o <<" ", "}">> >>)
        /\ HostCompile(source).calls[1] = schema.calls[1]

EmptyObject == ObjV(<<>>)

\* C19 as claimed: the validator of the empty field list accepts the empty
\* object and nothing else.
C19_OnlyEmptyObject ==
    (Ran("parse") /\ fields = <<>>) => (result.ok <=> input = EmptyObject)

\* C19 as amended: the validator of the empty field list is the open-shaped
\* object validator of no properties: every object input parses to {}, its
\* keys dropped, and an input that is no object is rejected.
C19_EmptyObjectStrips ==
    fields = <<>> =>
        /\ Ran("buildZodSchema") =>
              objSchema = Z("object", "ZodObject", <<>>)
        /\ Ran("parse") =>
              IF input.t = "object" THEN result = Ok(EmptyObject) ELSE ~result.ok

C19_Witness ==
    /\ fields = <<>>
    /\ Ran("parse")
    /\ input.t = "object"
    /\ Len(input.s) = 2
    /\ result = Ok(EmptyObject)

\* the rules whose constraint is declared with a message
MessageTags ==
    {"min", "max", "length", "nonempty", "email", "url", "uuid", "cuid", "cuid2", "ulid",
     "regex", "startsWith", "endsWith", "int", "positive", "negative", "finite", "safe",
     "multipleOf"}

\* the message a chained call hands to the validator: its last argument when
\* that is a string after the call's own operands, else none
CallMessage(call) ==
    IF call.args # <<>> /\ call.args[Len(call.args)].t = "string"
    THEN Some(call.args[Len(call.args)].s) ELSE None

\* C21: every constraint the runtime applies carries its rule's message, as
\* the source text does: on a field with one message-bearing rule of the
\* matching category, the rule's chained call of the validator, and that of
\* the compiled source text, is handed exactly that rule's message.
C21_MessageCarried ==
    (BothBuilt /\ schema # Threw /\ Len(field.validations) = 1) =>
        LET r == field.validations[1] IN
        (r.type \in MessageTags /\ field.type \in {"string", "number", "array"}
         /\ Supports(field, r.type)) =>
            /\ Len(schema.calls) >= 1
            /\ CallMessage(schema.calls[1]) = Some(r.message)
            /\ Len(HostCompile(source).calls) >= 1
            /\ CallMessage(HostCompile(source).calls[1]) = Some(r.message)

\* ---------------------------------------------------------------------------
\* The prompt message: interpolate and createPromptMessage (client.ts)
\* ---------------------------------------------------------------------------

MaxPieces == 3

\* does text s continue with text p from position i on
MatchesAt(s, p, i) ==
    /\ i + Len(p) - 1 <= Len(s)
    /\ \A k \in 1..Len(p) : s[i + k - 1] = p[k]

RECURSIVE GetSubstitution(_, _, _, _)
\* the text String.prototype.replaceAll inserts for a string pattern matched at
\* `position` of str: in the replacement, $$ stands for a dollar sign, $& for
\* the matched text, $` for the text before the match and $' for the text
\* after it; every other character stands for itself
GetSubstitution(matched, s, position, replacement) ==
    IF replacement = <<>> THEN <<>>
    ELSE IF Head(replacement) = "$" /\ Len(replacement) >= 2
              /\ replacement[2] \in {"$", "&", "`", "'"}
    THEN (CASE replacement[2] = "$" -> <<"$">>
            [] replacement[2] = "&" -> matched
            [] replacement[2] = "`" -> SubSeq(s, 1, position - 1)
            [] replacement[2] = "'" -> SubSeq(s, position + Len(matched), Len(s)))
         \o GetSubstitution(matched, s, position, Tail(Tail(replacement)))
    ELSE <<Head(replacement)>> \o GetSubstitution(matched, s, position, Tail(replacement))

RECURSIVE replaceAllFrom(_, _, _, _)
\* s.replaceAll(pattern, replacement) from position i on, for a non-empty
\* string pattern: the matches are found left to right in s and do not overlap
replaceAllFrom(s, pattern, replacement, i) ==
    IF i > Len(s) THEN <<>>
    ELSE IF MatchesAt(s, pattern, i)
    THEN GetSubstitution(pattern, s, i, replacement)
         \o replaceAllFrom(s, pattern, replacement, i + Len(pattern))
    ELSE <<s[i]>> \o replaceAllFrom(s, pattern, replacement, i + 1)

replaceAll(s, pattern, replacement) == replaceAllFrom(s, pattern, replacement, 1)

\* the placeholder of a key, `${key}`
Placeholder(key) == <<"$", "{">> \o key \o <<"}">>

RECURSIVE interpolate(_, _)
\* interpolate(template, variables): one replaceAll per entry of the
\* variables, each on the result of the one before
interpolate(tmpl, vs) ==
    IF vs = <<>> THEN tmpl
    ELSE interpolate(replaceAll(tmpl, Placeholder(Head(vs).key), Head(vs).value), Tail(vs))

\* createPromptMessage(template): a function of the variables whose toString
\* gives the template back
createPromptMessage(tmpl) == [template |-> tmpl]
PromptMessageCall(message, vs) == interpolate(message.template, vs)
PromptMessageToString(message) == message.template

\* the inputs of the interpolation runs: templates of at most MaxPieces pieces
\* (placeholders of supplied and unsupplied keys, plain text, a lone dollar
\* sign), and variables of at most two distinct keys whose values are plain,
\* empty, a placeholder, or carry a dollar sign
Pieces == { Placeholder(<<"a">>), Placeholder(<<"b">>), Placeholder(<<"c">>),
            <<"x">>, <<"$">> }
Templates == { Concat(ps) : ps \in SeqUpTo(Pieces, MaxPieces) }
Keys == { <<"a">>, <<"b">> }
Values == { <<"v">>, <<>>, Placeholder(<<"a">>), Placeholder(<<"b">>),
            <<"$", "&">>, <<"$", "$">> }
Variable(key, value) == [key |-> key, value |-> value]
VariableLists ==
    {<<>>}
    \cup { <<Variable(k, v)>> : k \in Keys, v \in Values }
    \cup { vs \in { <<Variable(k1, v1), Variable(k2, v2)>> :
             k1 \in Keys, k2 \in Keys, v1 \in Values, v2 \in Values } :
            vs[1].key # vs[2].key }

\* the interpolation runs: a prompt message is created from a template, then
\* called with the variables and asked for its text
InitInterpolate ==
    /\ template \in Templates
    /\ variables \in VariableLists
    /\ interpolated = <<>>
    /\ raw = <<>>
    /\ field = Field(<<"x">>, "string", <<>>, NoParams)
    /\ schema = Threw
    /\ source = <<>>
    /\ input = UndefV
    /\ result = Fail(<<>>)
    /\ str = <<>>
    /\ escaped = <<>>
    /\ fields = <<>>
    /\ objSource = <<>>
    /\ objSchema = Threw
    /\ ran = {}
    /\ ClientIdle
    /\ CliIdle

UserMessage ==
    /\ "userMessage" \notin ran
    /\ interpolated' = PromptMessageCall(createPromptMessage(template), variables)
    /\ ran' = ran \cup {"userMessage"}
    /\ UNCHANGED <<engineVars, clientVars, cliVars, template, variables, raw>>

MessageToString ==
    /\ "toString" \notin ran
    /\ raw' = PromptMessageToString(createPromptMessage(template))
    /\ ran' = ran \cup {"toString"}
    /\ UNCHANGED <<engineVars, clientVars, cliVars, template, variables, interpolated>>

NextInterpolate == UserMessage \/ MessageToString

SpecInterpolate == InitInterpolate /\ [][NextInterpolate]_vars

\* the value supplied for the placeholder the text continues with at position
\* i, if any
SuppliedAt(tmpl, vs, i) ==
    { vs[k].value : k \in { j \in 1..Len(vs) : MatchesAt(tmpl, Placeholder(vs[j].key), i) } }

RECURSIVE SubstitutedFrom(_, _, _)
\* the text the claim describes: the template read once from left to right,
\* every placeholder of a supplied key giving way to the supplied value as it
\* stands, every other character kept
SubstitutedFrom(tmpl, vs, i) ==
    IF i > Len(tmpl) THEN <<>>
    ELSE IF SuppliedAt(tmpl, vs, i) # {}
    THEN LET k == CHOOSE j \in 1..Len(vs) : MatchesAt(tmpl, Placeholder(vs[j].key), i) IN
         vs[k].value \o SubstitutedFrom(tmpl, vs, i + Len(Placeholder(vs[k].key)))
    ELSE <<tmpl[i]>> \o SubstitutedFrom(tmpl, vs, i + 1)

\* C24: userMessage(variables) replaces every occurrence of ${key} of the
\* template by the value supplied for that key and leaves every other
\* placeholder and all other text as it is (with no variables, the template
\* itself), and userMessage.toString() is the raw template.
C24_Interpolation ==
    /\ Ran("userMessage") => interpolated = SubstitutedFrom(template, variables, 1)
    /\ Ran("toString") => raw = template

\* the variables in every order of their entries
Reorderings(vs) ==
    { [i \in 1..Len(vs) |-> vs[p[i]]] : p \in Permutations(1..Len(vs)) }

\* C30: interpolate does not depend on the order in which the variables are
\* iterated: the entries substituted in any other order give the text
\* userMessage(variables) gave.
C30_OrderIndependent ==
    Ran("userMessage") =>
        \A vs \in Reorderings(variables) : interpolate(template, vs) = interpolated

\* ---------------------------------------------------------------------------
\* The client: fetchPrompt, getPrompt, getPrompts, aiParams (client.ts) and
\* createErrorFromResponse (errors.ts)
\* ---------------------------------------------------------------------------

MaxEntries == 2

ApiKey == <<"k">>

\* a PromptRequest and the options of get / aiParams; version is optional
PromptRequest(promptId, version) == [promptId |-> promptId, version |-> version]

\* the request fetchPrompt issues: the version is a search parameter only
\* when the option is a non-empty string
fetchPrompt_Request(promptId, options) ==
    [ path |-> <<"/", "prompts", "/">> \o promptId,
      version |-> IF options.version # None /\ options.version[1] # <<>>
                  THEN options.version ELSE None,
      authorization |-> <<"Bearer", " ">> \o ApiKey ]

\* a Response: status line and body; the body is a JSON object (with the
\* properties it has), the JSON value null, or text that is not JSON
JsonObject(error, code, usage, upgradeUrl, prompt) ==
    [ kind |-> "object", error |-> error, code |-> code, usage |-> usage,
      upgradeUrl |-> upgradeUrl, prompt |-> prompt ]
JsonNull == [JsonObject(None, None, None, None, None) EXCEPT !.kind = "null"]
NotJson == [JsonObject(None, None, None, None, None) EXCEPT !.kind = "text"]
Response(status, statusText, body) ==
    [status |-> status, statusText |-> statusText, body |-> body]
ResponseOk(response) == response.status \in 200..299

\* new PromptlyError(message, code, status, usage, upgradeUrl); a message of
\* undefined leaves the Error's message empty
PromptlyError(message, code, status, usage, upgradeUrl) ==
    [ name |-> "PromptlyError",
      message |-> IF message = None THEN <<>> ELSE message[1],
      code |-> code, status |-> status, usage |-> usage, upgradeUrl |-> upgradeUrl ]

\* an exception of the runtime raised inside the client (a body that is not
\* JSON, a schema that cannot be built)
RuntimeError(name) ==
    [PromptlyError(None, None, 0, None, None) EXCEPT !.name = name]

createErrorFromResponse_NoCatch(response) ==
    \* a plausible slip: the body is read without the try/catch
    IF response.body.kind = "object"
    THEN PromptlyError(response.body.error, response.body.code, response.status,
                       response.body.usage, response.body.upgradeUrl)
    ELSE RuntimeError(IF response.body.kind = "null" THEN "TypeError" ELSE "SyntaxError")

createErrorFromResponse(response) ==
    IF response.body.kind = "object"
    THEN PromptlyError(response.body.error, response.body.code, response.status,
                       response.body.usage, response.body.upgradeUrl)
    ELSE \* response.json() rejects, or reading body.error of null raises
         PromptlyError(Some(<<"HTTP", " ">> \o DecText(response.status) \o <<":", " ">>
                            \o response.statusText),
                       Some("BAD_REQUEST"), response.status, None, None)

\* the states of a promise
Fulfilled(value) == [state |-> "fulfilled", value |-> <<value>>, error |-> <<>>]
Rejected(error) == [state |-> "rejected", value |-> <<>>, error |-> <<error>>]
PendingSlot == [state |-> "pending", value |-> <<>>, error |-> <<>>]

\* fetchPrompt once its fetch is answered
fetchPrompt_Settle(response) ==
    IF ~ResponseOk(response) THEN Rejected(createErrorFromResponse(response))
    ELSE IF response.body.kind = "text" THEN Rejected(RuntimeError("SyntaxError"))
    ELSE IF response.body.kind = "null" \/ response.body.prompt = None
    THEN Rejected(RuntimeError("TypeError"))
    ELSE Fulfilled(response.body.prompt[1])

PROVIDER_PREFIXES ==
    << <<"claude", "anthropic">>, <<"gpt", "openai">>, <<"o1", "openai">>,
       <<"o3", "openai">>, <<"o4", "openai">>, <<"chatgpt", "openai">>,
       <<"gemini", "google">>, <<"mistral", "mistral">>, <<"mixtral", "mistral">>,
       <<"codestral", "mistral">> >>

\* model ids are sequences of lower-case words, the first being the family
detectProviderName(modelId) ==
    LET hits == { i \in 1..Len(PROVIDER_PREFIXES) :
                    StartsWith(modelId, <<PROVIDER_PREFIXES[i][1]>>) } IN
    IF hits = {} THEN None
    ELSE Some(PROVIDER_PREFIXES[CHOOSE i \in hits : \A j \in hits : i <= j][2])

\* resolveModel with the provider packages installed: the provider's model,
\* or undefined for an id of no known provider
resolveModel(modelId) ==
    IF detectProviderName(modelId) = None THEN None
    ELSE Some([provider |-> detectProviderName(modelId)[1], modelId |-> modelId])

\* what getPrompt returns for a fetched prompt
getPrompt_Result(prompt) ==
    [ promptId |-> prompt.promptId,
      promptName |-> prompt.promptName,
      version |-> prompt.version,
      systemMessage |-> prompt.systemMessage,
      config |-> prompt.config,
      userMessage |-> createPromptMessage(prompt.userMessage),
      temperature |-> prompt.config.temperature,
      model |-> resolveModel(prompt.config.model) ]

getPrompt_Settle(response) ==
    LET fetched == fetchPrompt_Settle(response) IN
    IF fetched.state = "rejected" THEN fetched
    ELSE Fulfilled(getPrompt_Result(fetched.value[1]))

aiParams_HasOutput_AnySchema(prompt) ==
    \* a plausible slip: the length of the field list is not looked at
    prompt.config.schema # None

\* the condition under which aiParams adds an output entry
aiParams_HasOutput(prompt) ==
    prompt.config.schema # None /\ Len(prompt.config.schema[1]) > 0

\* what aiParams returns for a fetched prompt, or the exception of
\* buildZodSchema
aiParams_Settle(response, options) ==
    LET fetched == fetchPrompt_Settle(response) IN
    IF fetched.state = "rejected" THEN fetched
    ELSE LET prompt == fetched.value[1]
             userMessage == IF options.variables # None
                            THEN interpolate(prompt.userMessage, options.variables[1])
                            ELSE prompt.userMessage
             params == [ system |-> prompt.systemMessage,
                         prompt |-> userMessage,
                         temperature |-> prompt.config.temperature,
                         model |-> resolveModel(prompt.config.model),
                         output |-> None ]
             built == IF prompt.config.schema = None THEN Threw
                      ELSE buildZodSchema(prompt.config.schema[1]) IN
         IF ~aiParams_HasOutput(prompt) THEN Fulfilled(params)
         ELSE IF built = Threw THEN Rejected(RuntimeError("SyntaxError"))
         ELSE Fulfilled([params EXCEPT !.output = Some(built)])

getPrompts_Position_CompletionOrder(done, i) ==
    \* a plausible slip: the results are collected as the fetches are answered
    done + 1

\* the position of the result of entry i in the list getPrompts resolves to,
\* when `done` entries were settled before it
getPrompts_Position(done, i) == i

\* Promise.all over the promises of the entries, after one of them settled:
\* rejected with the first rejection, else the value is kept at its position
\* and the whole is fulfilled once every position has its value
PromiseAll(current, settled, position) ==
    IF current.state # "pending" THEN current
    ELSE IF settled.state = "rejected"
    THEN [state |-> "rejected", values |-> <<>>, error |-> settled.error]
    ELSE LET values == [current.values EXCEPT ![position] = settled.value] IN
         [ state |-> IF \A i \in 1..Len(values) : values[i] # <<>>
                     THEN "fulfilled" ELSE "pending",
           values |-> values, error |-> <<>> ]

\* the promise a client method returns over n requests
PendingAll(n) ==
    [ state |-> IF n = 0 THEN "fulfilled" ELSE "pending",
      values |-> [i \in 1..n |-> <<>>], error |-> <<>> ]

\* the prompts the service holds: the prompt asked for, in the version asked
\* for (the current version <<"9">> when none is), with one of a few configs
ThrowingField == Field(<<"n">>, "bigint", <<Rule("default", <<"t", "r", "u", "e">>, <<>>)>>, NoParams)
PlainField == Field(<<"a">>, "string", <<>>, NoParams)
Configs ==
    { [model |-> <<"claude", "-", "haiku">>, temperature |-> 7, schema |-> Some(<<>>)],
      [model |-> <<"llama">>, temperature |-> 5, schema |-> Some(<<PlainField>>)],
      [model |-> <<"gpt", "-", "4">>, temperature |-> 0, schema |-> Some(<<ThrowingField>>)],
      [model |-> <<"gemini">>, temperature |-> 2, schema |-> None] }
StoredPrompt(promptId, version, config) ==
    [ promptId |-> promptId,
      promptName |-> <<"name", " ">> \o promptId,
      version |-> version,
      systemMessage |-> <<"system", " ">> \o promptId,
      userMessage |-> IF promptId = <<"p">> THEN <<"x">> \o Placeholder(<<"a">>)
                      ELSE Placeholder(<<"b">>),
      config |-> config ]

\* the answers a request can get: the prompt it names, a body that is not
\* JSON, or an error status with a JSON error body, the JSON value null or a
\* body that is not JSON
ServerResponses(request) ==
    LET promptId == SubSeq(request.path, 4, Len(request.path))
        version == IF request.version # None THEN request.version[1] ELSE <<"9">> IN
    { Response(200, <<"OK">>,
               JsonObject(None, None, None, None, Some(StoredPrompt(promptId, version, c)))) :
        c \in Configs }
    \cup
    { Response(200, <<"OK">>, NotJson),
      Response(401, <<"Unauthorized">>,
               JsonObject(Some(<<"Invalid API key">>), Some("INVALID_KEY"), None, None, None)),
      Response(429, <<"Too Many Requests">>,
               JsonObject(Some(<<"Rate limit exceeded">>), Some("USAGE_LIMIT_EXCEEDED"),
                          Some([current |-> 100, limit |-> 100]),
                          Some(<<"https://promptlycms.com/upgrade">>), None)),
      Response(500, <<"Internal Server Error">>, NotJson),
      Response(502, <<"Bad Gateway">>, JsonNull) }

\* the entries and options handed to the client
PromptRequests ==
    { PromptRequest(<<"p">>, None), PromptRequest(<<"p">>, Some(<<"1">>)),
      PromptRequest(<<"q">>, None), PromptRequest(<<"q">>, Some(<<"2">>)),
      PromptRequest(<<"q">>, Some(<<>>)) }
AiVariables ==
    { None, Some(<<Variable(<<"a">>, <<"v">>)>>),
      Some(<<Variable(<<"b">>, <<"w">>), Variable(<<"a">>, <<"v">>)>>) }

InitClient ==
    /\ ClientIdle
    /\ TextIdle
    /\ CliIdle
    /\ field = Field(<<"x">>, "string", <<>>, NoParams)
    /\ schema = Threw
    /\ source = <<>>
    /\ input = UndefV
    /\ result = Fail(<<>>)
    /\ str = <<>>
    /\ escaped = <<>>
    /\ fields = <<>>
    /\ objSource = <<>>
    /\ objSchema = Threw
    /\ ran = {}

\* a client method is invoked: it runs up to its first await, by which all its
\* fetches are issued
Invoke(op, entries, vs) ==
    /\ invoked = NoCall
    /\ invoked' = [op |-> op, entries |-> entries, variables |-> vs]
    /\ requests' = [i \in 1..Len(entries) |->
                      fetchPrompt_Request(entries[i].promptId, [version |-> entries[i].version])]
    /\ inflight' = 1..Len(entries)
    /\ answered' = <<>>
    /\ slots' = [i \in 1..Len(entries) |-> PendingSlot]
    /\ outcome' = PendingAll(Len(entries))
    /\ ran' = ran \cup {op}
    /\ UNCHANGED <<engineVars, textVars, cliVars>>

GetPrompt(e) == Invoke("getPrompt", <<e>>, None)

GetPrompts(entries) == Invoke("getPrompts", entries, None)

AiParams(e, vs) == Invoke("aiParams", <<e>>, vs)

\* the fetch of request i is answered: the method that issued it runs on to
\* its end, and the promise of the whole call takes the result in
FetchAnswered(i, response) ==
    /\ i \in inflight
    /\ LET settled == IF invoked.op = "aiParams"
                      THEN aiParams_Settle(response, invoked)
                      ELSE getPrompt_Settle(response)
           done == Cardinality({ k \in 1..Len(slots) : slots[k].state = "fulfilled" }) IN
       /\ slots' = [slots EXCEPT ![i] = settled]
       /\ outcome' = PromiseAll(outcome, settled, getPrompts_Position(done, i))
    /\ inflight' = inflight \ {i}
    /\ answered' = Append(answered, [request |-> i, response |-> response])
    /\ UNCHANGED <<engineVars, textVars, cliVars, invoked, requests, ran>>

NextClient ==
    \/ \E e \in PromptRequests : GetPrompt(e)
    \/ \E entries \in SeqUpTo(PromptRequests, MaxEntries) : GetPrompts(entries)
    \/ \E e \in PromptRequests, vs \in AiVariables : AiParams(e, vs)
    \/ \E i \in inflight : \E response \in ServerResponses(requests[i]) :
           FetchAnswered(i, response)

SpecClient == InitClient /\ [][NextClient]_vars

\* the answer request i got, once it is answered
AnswerOf(i) ==
    answered[CHOOSE k \in 1..Len(answered) : answered[k].request = i].response
IsAnswered(i) == \E k \in 1..Len(answered) : answered[k].request = i

\* C22: getPrompts(entries) issues exactly one fetch per entry, each for that
\* entry's prompt and carrying that entry's own version, and once it resolves
\* the list has the length of the entries and its i-th result is the prompt
\* of the i-th entry, in whatever order the fetches were answered.
C22_GetPromptsOrder ==
    invoked.op = "getPrompts" =>
        /\ Len(requests) = Len(invoked.entries)
        /\ \A i \in 1..Len(requests) :
             /\ requests[i].path = <<"/", "prompts", "/">> \o invoked.entries[i].promptId
             /\ requests[i].version =
                  (IF invoked.entries[i].version \in {None, Some(<<>>)}
                   THEN None ELSE invoked.entries[i].version)
        /\ outcome.state = "fulfilled" =>
             /\ Len(outcome.values) = Len(invoked.entries)
             /\ \A i \in 1..Len(outcome.values) :
                  /\ outcome.values[i][1].promptId = invoked.entries[i].promptId
                  /\ outcome.values[i][1] = getPrompt_Result(AnswerOf(i).body.prompt[1])

\* two different entries whose fetches were answered last first, and the
\* call resolved
C22_Witness ==
    /\ invoked.op = "getPrompts"
    /\ Len(invoked.entries) = 2
    /\ invoked.entries[1].promptId # invoked.entries[2].promptId
    /\ outcome.state = "fulfilled"
    /\ Len(answered) = 2
    /\ answered[1].request = 2

\* the first answer, in the order of the answers, that rejected its request
FirstRejected ==
    CHOOSE k \in 1..Len(answered) :
        /\ slots[answered[k].request].state = "rejected"
        /\ \A j \in 1..(k - 1) : slots[answered[j].request].state # "rejected"

\* C23: every answer that is not OK rejects its request with a PromptlyError
\* whose status is the response status and no prompt value: for a JSON error
\* body the error's message, code, usage and upgradeUrl are the body's error,
\* code, usage and upgradeUrl; for a body that is not JSON the code is
\* 'BAD_REQUEST' and the message 'HTTP <status>: <statusText>'. The client
\* call itself is then rejected, with the error of its first rejected request,
\* and returns no value.
C23_ErrorFromResponse ==
    \A k \in 1..Len(answered) :
        LET response == answered[k].response
            slot == slots[answered[k].request] IN
        ~ResponseOk(response) =>
            /\ slot.state = "rejected"
            /\ slot.value = <<>>
            /\ slot.error[1].name = "PromptlyError"
            /\ slot.error[1].status = response.status
            /\ response.body.kind = "object" =>
                 /\ slot.error[1].message = response.body.error[1]
                 /\ slot.error[1].code = response.body.code
                 /\ slot.error[1].usage = response.body.usage
                 /\ slot.error[1].upgradeUrl = response.body.upgradeUrl
            /\ response.body.kind = "text" =>
                 /\ slot.error[1].code = Some("BAD_REQUEST")
                 /\ slot.error[1].message =
                      <<"HTTP", " ">> \o DecText(response.status) \o <<":", " ">>
                      \o response.statusText
            /\ outcome.state = "rejected"
            /\ outcome.values = <<>>
            /\ outcome.error = slots[answered[FirstRejected].request].error

\* a call of two requests, the first answered 429 with a JSON error body, the
\* second 500 with a body that is not JSON
C23_Witness ==
    /\ Len(answered) = 2
    /\ answered[1].response.status = 429
    /\ answered[1].response.body.kind = "object"
    /\ answered[2].response.status = 500
    /\ answered[2].response.body.kind = "text"
    /\ outcome.state = "rejected"
    /\ outcome.error[1].status = 429

\* the prompt the one request of an aiParams call was answered with
FetchedPrompt == answered[1].response.body.prompt[1]

\* C25: what aiParams returns has the fetched systemMessage as system and the
\* fetched config.temperature as temperature, and has an output entry exactly
\* when config.schema is a non-empty field list.
C25_AiParams ==
    (invoked.op = "aiParams" /\ outcome.state = "fulfilled") =>
        LET params == outcome.values[1][1] IN
        /\ params.system = FetchedPrompt.systemMessage
        /\ params.temperature = FetchedPrompt.config.temperature
        /\ params.output # None <=>
             (FetchedPrompt.config.schema # None /\ FetchedPrompt.config.schema[1] # <<>>)

\* aiParams returned with an output entry for a field list of one field
C25_Witness ==
    /\ invoked.op = "aiParams"
    /\ outcome.state = "fulfilled"
    /\ outcome.values[1][1].output # None
    /\ FetchedPrompt.config.schema = Some(<<PlainField>>)

\* aiParams returned without an output entry for an empty field list
C25_WitnessEmpty ==
    /\ invoked.op = "aiParams"
    /\ outcome.state = "fulfilled"
    /\ outcome.values[1][1].output = None
    /\ FetchedPrompt.config.schema = Some(<<>>)

\* ---------------------------------------------------------------------------
\* The type generator: extractTemplateVariables, compareSemver,
\* groupAndSortVersions, generateTypeDeclaration (cli/generate.ts)
\* ---------------------------------------------------------------------------

MaxVersions == 2

\* the characters \w matches, in the order of their code units
WordChars == Digits \o <<"_", "a", "b", "x">>
IsWord(c) == \E k \in 1..Len(WordChars) : WordChars[k] = c
CodeUnit(c) == CHOOSE k \in 1..Len(WordChars) : WordChars[k] = c

RECURSIVE WordRun(_, _)
\* the length of the longest run of \w characters of text from position i on
WordRun(text, i) ==
    IF i <= Len(text) /\ IsWord(text[i]) THEN 1 + WordRun(text, i + 1) ELSE 0

\* Set.prototype.add on the insertion-ordered elements of a Set
SetAdd(elems, x) ==
    IF \E k \in 1..Len(elems) : elems[k] = x THEN elems ELSE Append(elems, x)

RECURSIVE ExtractFrom(_, _, _)
\* the matches of /\$\{(\w+)\}/g from position i on, left to right without
\* overlap, their captures collected in a Set
ExtractFrom(text, i, found) ==
    IF i > Len(text) THEN found
    ELSE LET n == WordRun(text, i + 2) IN
         IF /\ text[i] = "$"
            /\ i + 1 <= Len(text) /\ text[i + 1] = "{"
            /\ n >= 1
            /\ i + 2 + n <= Len(text) /\ text[i + 2 + n] = "}"
         THEN ExtractFrom(text, i + 3 + n, SetAdd(found, SubSeq(text, i + 2, i + 1 + n)))
         ELSE ExtractFrom(text, i + 1, found)

extractTemplateVariables(text) == ExtractFrom(text, 1, <<>>)

RECURSIVE SplitOn(_, _, _)
\* s.split(sep) for a one-character separator; cur is the part being read
SplitOn(s, sep, cur) ==
    IF s = <<>> THEN <<cur>>
    ELSE IF Head(s) = sep THEN <<cur>> \o SplitOn(Tail(s), sep, <<>>)
    ELSE SplitOn(Tail(s), sep, Append(cur, Head(s)))

\* (parts[i] ?? 0) of a.split('.').map(Number)
SemverPart(parts, i) == IF i <= Len(parts) THEN Number(parts[i]) ELSE NumV(0)

RECURSIVE CompareParts(_, _, _)
\* the loop of compareSemver from part i on: the first difference that is not
\* 0 is returned, be it a number or NaN
CompareParts(pa, pb, i) ==
    IF i > 3 THEN NumV(0)
    ELSE LET x == SemverPart(pa, i)
             y == SemverPart(pb, i) IN
         IF x = NaNV \/ y = NaNV THEN NaNV
         ELSE IF x.n - y.n # 0 THEN NumV(x.n - y.n)
         ELSE CompareParts(pa, pb, i + 1)

compareSemver(a, b) == CompareParts(SplitOn(a, ".", <<>>), SplitOn(b, ".", <<>>), 1)

RECURSIVE LexLess(_, _)
\* a < b as strings, by code units
LexLess(a, b) ==
    IF b = <<>> THEN FALSE
    ELSE IF a = <<>> THEN TRUE
    ELSE IF Head(a) # Head(b) THEN CodeUnit(Head(a)) < CodeUnit(Head(b))
    ELSE LexLess(Tail(a), Tail(b))

\* the comparator's result as sort reads it: negative, or not (NaN counts as 0)
Negative(v) == v # NaNV /\ v.n < 0

LATEST == <<"latest">>

VersionBefore_Ascending(a, b) ==
    \* a plausible slip: compareSemver(a, b) for compareSemver(b, a)
    IF a = LATEST THEN TRUE
    ELSE IF b = LATEST THEN FALSE
    ELSE Negative(compareSemver(a, b))

\* the comparator of the versions of a group
VersionBefore(a, b) ==
    IF a = LATEST THEN TRUE
    ELSE IF b = LATEST THEN FALSE
    ELSE Negative(compareSemver(b, a))

\* versions.find((v) => v !== 'latest') ?? ''
Highest(versions) ==
    LET rest == { k \in 1..Len(versions) : versions[k] # LATEST } IN
    IF rest = {} THEN <<>> ELSE versions[CHOOSE k \in rest : \A j \in rest : k <= j]

\* the comparator of the groups
GroupBefore(a, b) ==
    LET aHasLatest == a.versions # <<>> /\ a.versions[1] = LATEST
        bHasLatest == b.versions # <<>> /\ b.versions[1] = LATEST IN
    IF aHasLatest /\ ~bHasLatest THEN TRUE
    ELSE IF ~aHasLatest /\ bHasLatest THEN FALSE
    ELSE Negative(compareSemver(Highest(b.versions), Highest(a.versions)))

\* the comparators handed to sort, by what is sorted
Before(kind, x, y) ==
    CASE kind = "names" -> LexLess(x, y)
      [] kind = "versions" -> VersionBefore(x, y)
      [] kind = "groups" -> GroupBefore(x, y)

RECURSIVE SortInsert(_, _, _)
\* Array.prototype.sort is stable: x goes behind the sorted elements it does
\* not come before
SortInsert(sorted, x, kind) ==
    IF sorted = <<>> THEN <<x>>
    ELSE IF Before(kind, x, sorted[Len(sorted)])
    THEN Append(SortInsert(SubSeq(sorted, 1, Len(sorted) - 1), x, kind), sorted[Len(sorted)])
    ELSE Append(sorted, x)

RECURSIVE StableSort(_, _)
StableSort(s, kind) ==
    IF s = <<>> THEN <<>>
    ELSE SortInsert(StableSort(SubSeq(s, 1, Len(s) - 1), kind), s[Len(s)], kind)

variableFingerprint_Unsorted(names) ==
    \* a plausible slip: the names are joined in the order of the template
    Join(names, <<",">>)

\* [...variables].sort().join(',')
variableFingerprint(names) == Join(StableSort(names, "names"), <<",">>)

\* the entries of a prompt: its published versions if it has the property,
\* else its one version with the variables of its userMessage
VersionEntries(prompt) ==
    IF prompt.publishedVersions # None
    THEN [k \in 1..Len(prompt.publishedVersions[1]) |->
            [ version |-> prompt.publishedVersions[1][k].version,
              variables |-> extractTemplateVariables(prompt.publishedVersions[1][k].userMessage) ]]
    ELSE << [version |-> prompt.version,
             variables |-> extractTemplateVariables(prompt.userMessage)] >>

RECURSIVE GroupFold(_, _, _)
\* the Map of groups after the entries from i on were added: an entry joins
\* the group of its fingerprint or opens a new one with its own variables
GroupFold(map, entries, i) ==
    IF i > Len(entries) THEN map
    ELSE LET fp == variableFingerprint(entries[i].variables)
             hit == { k \in 1..Len(map) : map[k].fp = fp } IN
         IF hit # {}
         THEN LET k == CHOOSE j \in hit : TRUE IN
              GroupFold([map EXCEPT ![k].versions = Append(@, entries[i].version)],
                        entries, i + 1)
         ELSE GroupFold(Append(map, [fp |-> fp, versions |-> <<entries[i].version>>,
                                     variables |-> entries[i].variables]),
                        entries, i + 1)

\* 'latest' is put in front of the group of the userMessage's fingerprint, if
\* the Map has one
AddLatest(map, latestVars) ==
    [k \in 1..Len(map) |->
        IF map[k].fp = variableFingerprint(latestVars)
        THEN [map[k] EXCEPT !.versions = <<LATEST>> \o @] ELSE map[k]]

groupAndSortVersions(prompt) ==
    LET map == AddLatest(GroupFold(<<>>, VersionEntries(prompt), 1),
                         extractTemplateVariables(prompt.userMessage))
        sorted == [k \in 1..Len(map) |->
                     [ versions |-> StableSort(map[k].versions, "versions"),
                       variables |-> map[k].variables ]] IN
    StableSort(sorted, "groups")

\* `'${text}'`
SingleQuoted(text) == <<"'">> \o text \o <<"'">>

\* the lines `${indent}  ${v}: string;` of the variables, then `${indent}};`
VariableLines(names, indent) ==
    [k \in 1..Len(names) |-> <<indent, "  ">> \o names[k] \o <<": string;">>]
    \o << <<indent, "}", ";">> >>

\* the lines of one group; a line is a sequence of tokens, a brace always a
\* token of its own
generateMappedTypeBlock(group, indent) ==
    LET versions == group.versions
        names == group.variables IN
    IF Len(versions) = 1
    THEN (IF Len(names) = 0
          THEN << <<indent, "[V in ">> \o SingleQuoted(versions[1])
                  \o <<"]: Record<string, never>;">> >>
          ELSE << <<indent, "[V in ">> \o SingleQuoted(versions[1]) \o <<"]: ", "{">> >>
               \o VariableLines(names, indent))
    ELSE << <<indent, "[V in">> >>
         \o [i \in 1..Len(versions) |->
               IF i = Len(versions)
               THEN (IF Len(names) = 0
                     THEN <<indent, "  | ">> \o SingleQuoted(versions[i])
                          \o <<"]: Record<string, never>;">>
                     ELSE <<indent, "  | ">> \o SingleQuoted(versions[i]) \o <<"]: ", "{">>)
               ELSE <<indent, "  | ">> \o SingleQuoted(versions[i])]
         \o (IF Len(names) > 0 THEN VariableLines(names, indent) ELSE <<>>)

\* the line that opens the property of a prompt, the line that joins two
\* groups and the line that closes the property
PropertyOpen(promptId) == <<"    ">> \o SingleQuoted(promptId) \o <<": ", "{">>
PropertyJoin == <<"    ", "}", " & ", "{">>
PropertyClose == <<"    ", "}", ";">>

\* the lines generateTypeDeclaration pushes for one prompt
PromptLines(prompt) ==
    LET gs == groupAndSortVersions(prompt) IN
    IF Len(gs) = 1
    THEN <<PropertyOpen(prompt.promptId)>>
         \o generateMappedTypeBlock(gs[1], "      ")
         \o <<PropertyClose>>
    ELSE Concat([i \in 1..Len(gs) |->
                   << IF i = 1 THEN PropertyOpen(prompt.promptId) ELSE PropertyJoin >>
                   \o generateMappedTypeBlock(gs[i], "      ")])
         \o <<PropertyClose>>

\* the lines of the declaration, which the function joins by newlines
generateTypeDeclaration(ps) ==
    << <<"// Auto-generated by @promptlycms/prompts - do not edit">>,
       <<"import '@promptlycms/prompts';">>,
       <<>>,
       <<"declare module '@promptlycms/prompts' ", "{">>,
       <<"  interface PromptVariableMap ", "{">> >>
    \o Concat([k \in 1..Len(ps) |-> PromptLines(ps[k])])
    \o << <<"  ", "}">>, <<"}">>, <<>> >>

\* the prompts handed to the generator: a userMessage and a version, and
\* either no publishedVersions property or at most MaxVersions published
\* versions (none included), each with a version and a userMessage
Prompt(promptId, version, userMessage, publishedVersions) ==
    [ promptId |-> promptId, version |-> version, userMessage |-> userMessage,
      publishedVersions |-> publishedVersions ]
PublishedVersion(version, userMessage) == [version |-> version, userMessage |-> userMessage]
CliVersions == { <<"1", ".", "0", ".", "0">>, <<"2", ".", "0", ".", "0">>,
                 <<"1", "0", ".", "0", ".", "0">> }
CliTemplates ==
    { <<"x">>,
      Placeholder(<<"a">>),
      Placeholder(<<"a">>) \o <<" ">> \o Placeholder(<<"b">>),
      Placeholder(<<"b">>) \o Placeholder(<<"a">>) \o <<"$", "{", "}">> \o Placeholder(<<"b">>) }
PublishedVersions ==
    { PublishedVersion(v, t) : v \in CliVersions, t \in CliTemplates }
CliPrompts ==
    { Prompt(<<"p">>, <<"2", ".", "0", ".", "0">>, t, pv) :
        t \in CliTemplates,
        pv \in {None} \cup { Some(l) : l \in SeqUpTo(PublishedVersions, MaxVersions) } }

\* a second prompt of the same call: without published versions, with an
\* empty list of them, or with versions of two variable sets
OtherPrompts ==
    { Prompt(<<"q">>, <<"1", ".", "0", ".", "0">>, Placeholder(<<"b">>), None),
      Prompt(<<"q">>, <<"1", ".", "0", ".", "0">>, Placeholder(<<"b">>), Some(<<>>)),
      Prompt(<<"q">>, <<"2", ".", "0", ".", "0">>, Placeholder(<<"b">>),
             Some(<< PublishedVersion(<<"1", ".", "0", ".", "0">>, <<"x">>),
                     PublishedVersion(<<"2", ".", "0", ".", "0">>, Placeholder(<<"b">>)) >>)) }

InitGenerate ==
    /\ \E p \in CliPrompts :
          prompts \in { <<p>> } \cup { <<p, o>> : o \in OtherPrompts }
    /\ groups = <<>>
    /\ declaration = <<>>
    /\ ClientIdle
    /\ TextIdle
    /\ field = Field(<<"x">>, "string", <<>>, NoParams)
    /\ schema = Threw
    /\ source = <<>>
    /\ input = UndefV
    /\ result = Fail(<<>>)
    /\ str = <<>>
    /\ escaped = <<>>
    /\ fields = <<>>
    /\ objSource = <<>>
    /\ objSchema = Threw
    /\ ran = {}

GroupAndSortVersions ==
    /\ "groupAndSortVersions" \notin ran
    /\ groups' = [k \in 1..Len(prompts) |-> groupAndSortVersions(prompts[k])]
    /\ ran' = ran \cup {"groupAndSortVersions"}
    /\ UNCHANGED <<engineVars, clientVars, textVars, prompts, declaration>>

GenerateTypeDeclaration ==
    /\ "generateTypeDeclaration" \notin ran
    /\ declaration' = generateTypeDeclaration(prompts)
    /\ ran' = ran \cup {"generateTypeDeclaration"}
    /\ UNCHANGED <<engineVars, clientVars, textVars, prompts, groups>>

NextGenerate == GroupAndSortVersions \/ GenerateTypeDeclaration

SpecGenerate == InitGenerate /\ [][NextGenerate]_vars

\* major, minor and patch of a version of dotted decimal numbers
SemverKey(v) ==
    LET parts == SplitOn(v, ".", <<>>) IN
    [i \in 1..3 |-> IF i <= Len(parts) /\ IsDigits(parts[i]) THEN DecVal(parts[i]) ELSE 0]

\* version a is not lower than version b
SemverGeq(a, b) ==
    LET x == SemverKey(a)
        y == SemverKey(b) IN
    \/ x[1] > y[1]
    \/ x[1] = y[1] /\ x[2] > y[2]
    \/ x[1] = y[1] /\ x[2] = y[2] /\ x[3] >= y[3]

HasLatest(group) == \E i \in 1..Len(group.versions) : group.versions[i] = LATEST

\* some version of the group that no version of the group is higher than
HighestOf(group) ==
    CHOOSE v \in { group.versions[i] : i \in 1..Len(group.versions) } \ {LATEST} :
        \A i \in 1..Len(group.versions) :
            group.versions[i] # LATEST => SemverGeq(v, group.versions[i])

\* C26: in every group groupAndSortVersions returns, 'latest', if present, is
\* first and the other versions follow in descending semver order; the group
\* that contains 'latest' is the first group and the other groups follow in
\* descending order of their highest version.
C26_Ordering ==
    Ran("groupAndSortVersions") =>
        \A k \in 1..Len(groups) :
            LET gs == groups[k] IN
            /\ \A g \in 1..Len(gs) :
                 /\ \A i \in 2..Len(gs[g].versions) : gs[g].versions[i] # LATEST
                 /\ \A i, j \in 1..Len(gs[g].versions) :
                      (i < j /\ gs[g].versions[i] # LATEST) =>
                          SemverGeq(gs[g].versions[i], gs[g].versions[j])
            /\ \A g \in 2..Len(gs) : ~HasLatest(gs[g])
            /\ \A g, h \in 1..Len(gs) :
                 (g < h /\ ~HasLatest(gs[g])) => SemverGeq(HighestOf(gs[g]), HighestOf(gs[h]))

\* versions published lowest first came out highest first behind 'latest',
\* and of the two groups of the second prompt the one with 'latest' is first
C26_Witness ==
    /\ Ran("groupAndSortVersions")
    /\ Len(groups) = 2
    /\ prompts[1].publishedVersions # None
    /\ Len(prompts[1].publishedVersions[1]) = 2
    /\ prompts[1].publishedVersions[1][1].version = <<"2", ".", "0", ".", "0">>
    /\ prompts[1].publishedVersions[1][2].version = <<"1", "0", ".", "0", ".", "0">>
    /\ Len(groups[1]) = 1
    /\ groups[1][1].versions =
         <<LATEST, <<"1", "0", ".", "0", ".", "0">>, <<"2", ".", "0", ".", "0">> >>
    /\ Len(groups[2]) = 2
    /\ HasLatest(groups[2][1])

\* the names of a list, as a set
NameSet(names) == { names[i] : i \in 1..Len(names) }

\* how many elements of a sequence satisfy a test, for the tests used below
CountVersion(versions, v) == Cardinality({ i \in 1..Len(versions) : versions[i] = v })
CountLines(lines, line) == Cardinality({ i \in 1..Len(lines) : lines[i] = line })
HasToken(line, token) == \E i \in 1..Len(line) : line[i] = token

\* C27: for every prompt, whatever its publishedVersions, groupAndSortVersions
\* places 'latest' in exactly one group, the one whose variable set equals
\* the variables of prompt.userMessage, so that the generated declaration
\* has a 'latest' version key for every prompt.
C27_LatestPresent ==
    /\ Ran("groupAndSortVersions") =>
         \A k \in 1..Len(groups) :
             /\ Cardinality({ g \in 1..Len(groups[k]) : HasLatest(groups[k][g]) }) = 1
             /\ \A g \in 1..Len(groups[k]) :
                  HasLatest(groups[k][g]) =>
                      /\ CountVersion(groups[k][g].versions, LATEST) = 1
                      /\ NameSet(groups[k][g].variables)
                           = NameSet(extractTemplateVariables(prompts[k].userMessage))
    /\ Ran("generateTypeDeclaration") =>
         Cardinality({ i \in 1..Len(declaration) : HasToken(declaration[i], "latest") })
             = Len(prompts)

\* the tokens "{" and "}" of the lines 1..n, as +1 and -1
RECURSIVE LineDepth(_, _)
LineDepth(line, i) ==
    IF i > Len(line) THEN 0
    ELSE (IF line[i] = "{" THEN 1 ELSE IF line[i] = "}" THEN -1 ELSE 0)
         + LineDepth(line, i + 1)

RECURSIVE DepthAfter(_, _)
DepthAfter(lines, n) ==
    IF n = 0 THEN 0 ELSE DepthAfter(lines, n - 1) + LineDepth(lines[n], 1)

IsPropertyOpen(line) == \E k \in 1..Len(prompts) : line = PropertyOpen(prompts[k].promptId)

\* C28: the declaration is well-formed for every prompt list: each prompt has
\* exactly one opening line "'<promptId>': {", every closing line '};' of a
\* property comes after an opening line of its own, and the braces balance
\* (no closing brace without an open one, none left open), also for a prompt
\* whose publishedVersions is the empty array.
C28_WellFormed ==
    Ran("generateTypeDeclaration") =>
        /\ \A k \in 1..Len(prompts) :
             CountLines(declaration, PropertyOpen(prompts[k].promptId)) = 1
        /\ \A n \in 1..Len(declaration) :
             /\ Cardinality({ i \in 1..n : declaration[i] = PropertyClose })
                  <= Cardinality({ i \in 1..n : IsPropertyOpen(declaration[i]) })
             /\ DepthAfter(declaration, n) >= 0
        /\ DepthAfter(declaration, Len(declaration)) = 0

\* the entries a prompt is grouped from
Published(prompt) ==
    IF prompt.publishedVersions # None THEN prompt.publishedVersions[1]
    ELSE <<PublishedVersion(prompt.version, prompt.userMessage)>>

\* C29: groupAndSortVersions partitions the versions: the versions of a group,
\* 'latest' aside, are exactly the entries of publishedVersions (or
\* prompt.version alone without publishedVersions) whose template uses the
\* group's set of variables, in whatever order the template names them; no
\* two groups have the same set, no group is empty and every entry's set has
\* its group.
C29_Partition ==
    Ran("groupAndSortVersions") =>
        \A k \in 1..Len(groups) :
            LET gs == groups[k]
                entries == Published(prompts[k])
                SetOf(i) == NameSet(extractTemplateVariables(entries[i].userMessage)) IN
            /\ \A g \in 1..Len(gs) :
                 /\ gs[g].versions # <<>>
                 /\ \A v \in CliVersions :
                      CountVersion(gs[g].versions, v)
                        = Cardinality({ i \in 1..Len(entries) :
                                          /\ entries[i].version = v
                                          /\ SetOf(i) = NameSet(gs[g].variables) })
                 /\ \A i \in 1..Len(gs[g].versions) :
                      gs[g].versions[i] \in CliVersions \cup {LATEST}
            /\ \A g, h \in 1..Len(gs) :
                 g # h => NameSet(gs[g].variables) # NameSet(gs[h].variables)
            /\ \A i \in 1..Len(entries) :
                 \E g \in 1..Len(gs) : NameSet(gs[g].variables) = SetOf(i)

\* two published versions whose templates name the same variables in
\* different orders ended up in one group
C29_Witness ==
    /\ Ran("groupAndSortVersions")
    /\ prompts[1].publishedVersions # None
    /\ Len(prompts[1].publishedVersions[1]) = 2
    /\ extractTemplateVariables(prompts[1].publishedVersions[1][1].userMessage)
         = << <<"a">>, <<"b">> >>
    /\ extractTemplateVariables(prompts[1].publishedVersions[1][2].userMessage)
         = << <<"b">>, <<"a">> >>
    /\ prompts[1].publishedVersions[1][1].version # prompts[1].publishedVersions[1][2].version
    /\ Len(groups[1]) = 1

====
